---- MODULE Spec2Model ----
(***************************************************************************)
(* Blaze VCS: the chunk store (src/chunks.rs), the metadata store          *)
(* (src/database.rs) and the repository core (src/core.rs).                *)
(*                                                                         *)
(* File bytes are abstract: a content is an identifier with a byte length  *)
(* and a compressibility class, a chunk's data is a byte range of a        *)
(* content.  BLAKE3 is collision free: distinct data have distinct         *)
(* digests.  Digests are short digit strings so that the fan-out path of a *)
(* chunk and the prefix lookup of a commit are computed as the code does.  *)
(***************************************************************************)
EXTENDS Integers, Sequences, FiniteSets, TLC

VARIABLES
    worktree,          \* working tree: path -> NoFile or File(data, mtime, mode)
    files,             \* metadata.db table files (staging): path -> FileRecord
    commits,           \* metadata.db table commits: set of CommitRecord
    refs,              \* metadata.db table refs: name -> commit_hash (None = NULL)
    chunks_dir,        \* .blaze/chunks: fan-out path -> record bytes
    lock_holder,       \* process holding the flock on repo.lock, 0 = free
    pc,                \* per process: position inside the running operation
    loc,               \* per process: local variables of the running operation
    stores,            \* per process: the ChunkStore caches of its Blaze instance
    ret,               \* per process: what the last finished call returned
    now,               \* wall clock, whole seconds
    debug_assertions,  \* the build: cfg(debug_assertions) on or off
    is_repo            \* .blaze and .blaze/metadata.db exist

vars == <<worktree, files, commits, refs, chunks_dir, lock_holder, pc, loc,
          stores, ret, now, debug_assertions, is_repo>>

(***************************************************************************)
(* Program constants                                                       *)
(***************************************************************************)
\* 2 MiB
CHUNK_SIZE == 2097152
\* 10 KiB
SMALL_FILE_THRESHOLD == 10240
TINY_FILE_THRESHOLD == 4096
\* 64 MiB
max_cache_size == 67108864
COMPRESS_FLOOR == 128
DELTA_FLOOR == 1024
\* 16 MiB, the capacity given to zstd::bulk::decompress
ZSTD_MAX_DECOMPRESSED == 16777216

\* Option::None of a digest: the digest with no digit.
None == <<>>
NoErr == "none"
Procs == {1, 2}

(***************************************************************************)
(* Contents and chunk data                                                 *)
(***************************************************************************)
\* The contents a file or a chunk can have, with their byte lengths.
ContentSeq == <<"s", "m", "x">>
ContentIds == {ContentSeq[i] : i \in 1..Len(ContentSeq)}

ContentLen(id) ==
    CASE id = "s" -> 100
      [] id = "m" -> CHUNK_SIZE + 1
      [] id = "x" -> 20 * 1024 * 1024
      [] OTHER    -> 0

\* What the compressors achieve on a content's bytes: "zstd" when zstd saves
\* at least 10%, "lz4" when only LZ4 saves at least 5%, "none" otherwise.
ContentClass(id) ==
    CASE id = "s" -> "zstd"
      [] id = "m" -> "lz4"
      [] id = "x" -> "zstd"
      [] OTHER    -> "none"

EmptyData == [id |-> "", off |-> 0, len |-> 0]

\* The bytes [off, off+len) of content id; all empty ranges are the same bytes.
Slice(id, off, len) ==
    IF len = 0 THEN EmptyData ELSE [id |-> id, off |-> off, len |-> len]

Min(a, b) == IF a < b THEN a ELSE b

NumFixedChunks(len) == (len + CHUNK_SIZE - 1) \div CHUNK_SIZE

\* Chunks of a quarter of the cache budget (16 MiB), the largest the byte
\* cache admits: five byte ranges of "x", one MiB apart.
QuarterData == {Slice("x", k * 1048576, 16777216) : k \in 0..4}

\* Every chunk data of the model: whole contents, their CHUNK_SIZE pieces and
\* the quarter-budget chunks.
ChunkUniverse ==
    {EmptyData}
    \cup QuarterData
    \cup {Slice(id, 0, ContentLen(id)) : id \in ContentIds}
    \cup UNION {{Slice(id, k * CHUNK_SIZE,
                       Min(CHUNK_SIZE, ContentLen(id) - k * CHUNK_SIZE)) :
                   k \in 0..(NumFixedChunks(ContentLen(id)) - 1)} :
                id \in ContentIds}

ContentIndex(id) ==
    IF id = "" THEN 0 ELSE CHOOSE i \in 1..Len(ContentSeq) : ContentSeq[i] = id

DataBefore(e, d) ==
    \/ ContentIndex(e.id) < ContentIndex(d.id)
    \/ e.id = d.id /\ e.off < d.off
    \/ e.id = d.id /\ e.off = d.off /\ e.len < d.len

\* Digits of a digest: three digits in base 4.
HashDigits(r) == <<r \div 16, (r \div 4) % 4, r % 4>>

HashTable ==
    [d \in ChunkUniverse |->
        HashDigits(Cardinality({e \in ChunkUniverse : DataBefore(e, d)}))]

\* BLAKE3 of chunk data, rendered as a digit string; injective.
compute_chunk_hash(data) == HashTable[data]

\* FileChunk::new
FileChunk(data) == [hash |-> compute_chunk_hash(data), size |-> data.len, data |-> data]

ChunkHashes == {compute_chunk_hash(d) : d \in ChunkUniverse}

(***************************************************************************)
(* Results                                                                 *)
(***************************************************************************)
Ok(v) == [ok |-> TRUE, val |-> v]
Err(kind) == [ok |-> FALSE, kind |-> kind]

(***************************************************************************)
(* Chunk store: paths and record format                                    *)
(***************************************************************************)
\* chunks/<hh>/<rest>
get_chunk_path(hash) ==
    IF Len(hash) < 2
    THEN [dir |-> <<>>, name |-> hash]
    ELSE [dir |-> SubSeq(hash, 1, 2), name |-> SubSeq(hash, 3, Len(hash))]

\* Path::with_extension("tmp") on a file name without a dot
with_extension_tmp(path) == [path EXCEPT !.name = @ \o <<".tmp">>]

\* garbage_collect: format!("{}{}", subdir_name, filename)
full_hash(path) == path.dir \o path.name

ZstdAccepts(data) == ContentClass(data.id) = "zstd"
Lz4Accepts(data) == ContentClass(data.id) \in {"zstd", "lz4"}

\* The record written for data: a type tag and the encoded bytes.  body names
\* the bytes the encoding stands for.
compress_chunk_data(data) ==
    IF data.len < COMPRESS_FLOOR
    THEN [tag |-> 0, body |-> data]
    ELSE IF ZstdAccepts(data)
         THEN [tag |-> 2, body |-> data]
         ELSE IF Lz4Accepts(data)
              THEN [tag |-> 1, body |-> data]
              ELSE [tag |-> 0, body |-> data]

decompress_chunk_data(rec) ==
    CASE rec.tag = 0 -> Ok(rec.body)
      [] rec.tag = 1 -> Ok(rec.body)
      [] rec.tag = 2 -> IF rec.body.len <= ZSTD_MAX_DECOMPRESSED
                        THEN Ok(rec.body)
                        ELSE Err("Chunk")
      [] OTHER       -> Err("Chunk")

EmptyMap == [x \in {} |-> x]
MapPut(f, k, v) == [x \in DOMAIN f \cup {k} |-> IF x = k THEN v ELSE f[x]]
MapDel(f, k) == [x \in DOMAIN f \ {k} |-> f[x]]

\* A fresh ChunkStore (ChunkStore::new)
NewStore ==
    [chunk_cache        |-> EmptyMap,
     current_cache_size |-> 0,
     existence_cache    |-> {},
     negative_cache     |-> {},
     delta_cache        |-> EmptyMap]

(***************************************************************************)
(* Chunk store: operations.  st is the ChunkStore (its caches), disk the   *)
(* chunks directory.  An operation yields the set of its possible          *)
(* outcomes [st, disk, res]; there is more than one only where the code    *)
(* iterates a HashMap and the order matters.                               *)
(***************************************************************************)
\* A rename that copies: the source file stays.
Rename_copy(disk, from, to) == MapPut(disk, to, disk[from])

\* fs::rename
Rename(disk, from, to) == MapPut(MapDel(disk, from), to, disk[from])

\* The file is written and synced at the .tmp path and stays there.
WriteChunkFile_no_rename(disk, path, rec) == MapPut(disk, with_extension_tmp(path), rec)

\* Write to the sibling .tmp path, sync, rename into place.
WriteChunkFile(disk, path, rec) ==
    Rename(MapPut(disk, with_extension_tmp(path), rec), with_extension_tmp(path), path)

\* Two data are similar enough for a delta (calculate_similarity > 0.7 within
\* the 10% size band): pieces of the same content.
Similar(a, b) ==
    /\ a.id = b.id
    /\ (IF a.len > b.len THEN a.len - b.len ELSE b.len - a.len) <= b.len \div 10

\* create_delta output is below the accepted fraction of the raw size.
DeltaAccepts(base, data) == Similar(base, data)

RECURSIVE load_chunk_uncached(_, _, _, _)
load_chunk_uncached(disk, hash, dbg, fuel) ==
    LET path == get_chunk_path(hash) IN
    IF path \notin DOMAIN disk
    THEN Err("Generic")
    ELSE
      LET rec == disk[path]
          decoded ==
            IF rec.tag = 3
            THEN IF fuel = 0
                 THEN Err("Overflow")
                 ELSE LET base == load_chunk_uncached(disk, rec.base, dbg, fuel - 1)
                          delta == decompress_chunk_data(rec.body)
                      IN IF ~base.ok THEN base
                         ELSE IF ~delta.ok THEN delta
                         ELSE Ok(delta.val.new)
            ELSE decompress_chunk_data(rec)
      IN IF decoded.ok /\ dbg /\ compute_chunk_hash(decoded.val) # hash
         THEN Err("Chunk")
         ELSE decoded

LoadFuel(disk) == Cardinality(DOMAIN disk)

chunk_exists(st, disk, hash) ==
    IF hash \in DOMAIN st.chunk_cache
    THEN [exists |-> TRUE, st |-> st]
    ELSE IF hash \in st.existence_cache
    THEN [exists |-> TRUE, st |-> st]
    ELSE IF hash \in st.negative_cache
    THEN [exists |-> FALSE, st |-> st]
    ELSE IF get_chunk_path(hash) \in DOMAIN disk
    THEN [exists |-> TRUE,
          st |-> [st EXCEPT !.existence_cache = @ \cup {hash}]]
    ELSE [exists |-> FALSE,
          st |-> [st EXCEPT !.negative_cache = @ \cup {hash}]]

\* The eviction loop: remove entries, in HashMap order, until the new entry fits.
RECURSIVE Evict(_, _, _)
Evict(cache, size, data_size) ==
    IF size + data_size > max_cache_size /\ DOMAIN cache # {}
    THEN UNION {Evict(MapDel(cache, h), size - cache[h].len, data_size) :
                  h \in DOMAIN cache}
    ELSE {[cache |-> cache, size |-> size]}

\* maybe_cache_chunk without the eviction loop.
maybe_cache_chunk_no_evict(st, hash, data) ==
    IF data.len > max_cache_size \div 4
    THEN {st}
    ELSE {[st EXCEPT !.chunk_cache = MapPut(st.chunk_cache, hash, data),
                     !.current_cache_size = st.current_cache_size + data.len]}

maybe_cache_chunk(st, hash, data) ==
    IF data.len > max_cache_size \div 4
    THEN {st}
    ELSE {[st EXCEPT !.chunk_cache = MapPut(e.cache, hash, data),
                     !.current_cache_size = e.size + data.len] :
            e \in Evict(st.chunk_cache, st.current_cache_size, data.len)}

\* After a chunk file is in place: cache the bytes, mark the digest as existing.
MarkStored(st, chunk) ==
    {[s EXCEPT !.existence_cache = @ \cup {chunk.hash},
               !.negative_cache = @ \ {chunk.hash}] :
       s \in maybe_cache_chunk(st, chunk.hash, chunk.data)}

store_chunk(st, disk, chunk) ==
    LET ce == chunk_exists(st, disk, chunk.hash) IN
    IF ce.exists
    THEN {[st |-> ce.st, disk |-> disk, res |-> Ok(chunk.hash)]}
    ELSE LET path == get_chunk_path(chunk.hash)
             rec == compress_chunk_data(chunk.data)
             disk1 == WriteChunkFile(disk, path, rec)
         IN {[st |-> s, disk |-> disk1, res |-> Ok(chunk.hash)] :
               s \in MarkStored(ce.st, chunk)}

\* find_similar_chunk: candidates come from the keys and values of delta_cache.
\* A similarity search over every chunk file on disk.
find_similar_chunk_on_disk(st, disk, chunk_hash, data) ==
    LET bySize == {h \in ChunkHashes \ {chunk_hash} :
                     LET d == load_chunk_uncached(disk, h, FALSE, LoadFuel(disk))
                     IN d.ok /\ Similar(d.val, data)}
    IN IF bySize # {} THEN bySize ELSE {None}

find_similar_chunk(st, disk, chunk_hash, data) ==
    LET hinted ==
          IF chunk_hash \in DOMAIN st.delta_cache
          THEN {st.delta_cache[chunk_hash][i] : i \in 1..Len(st.delta_cache[chunk_hash])}
          ELSE {}
        present == {h \in hinted : chunk_exists(st, disk, h).exists}
        bySize == {h \in DOMAIN st.delta_cache \ {chunk_hash} :
                     LET d == load_chunk_uncached(disk, h, FALSE, LoadFuel(disk))
                     IN d.ok /\ Similar(d.val, data)}
    IN IF present # {} THEN present
       ELSE IF bySize # {} THEN bySize
       ELSE {None}

\* The record store_chunks writes for one new chunk, with the delta base if any.
BatchRecords(st, disk, chunk) ==
    LET plain == [rec |-> compress_chunk_data(chunk.data), base |-> None] IN
    IF chunk.data.len > DELTA_FLOOR
    THEN {LET b == IF base = None THEN Err("Generic")
                   ELSE load_chunk_uncached(disk, base, debug_assertions, LoadFuel(disk))
          IN IF base # None /\ b.ok /\ DeltaAccepts(b.val, chunk.data)
             THEN [rec |-> [tag |-> 3, base |-> base,
                            body |-> compress_chunk_data(
                                        [new |-> chunk.data, len |-> chunk.data.len \div 2,
                                         id |-> chunk.data.id])],
                   base |-> base]
             ELSE plain :
            base \in find_similar_chunk(st, disk, chunk.hash, chunk.data)}
    ELSE {plain}

SumLen(S) ==
    LET RECURSIVE Sum(_)
        Sum(T) == IF T = {} THEN 0
                  ELSE LET c == CHOOSE c \in T : TRUE IN c.data.len + Sum(T \ {c})
    IN Sum(S)

\* The post-write loop of store_chunks over new_chunks.  Its order (that of
\* unique_chunks.values()) decides which entries are evicted; when nothing
\* can be evicted every order gives the same caches.
RECURSIVE CacheNewChunks(_, _)
CacheNewChunks(st, S) ==
    IF S = {} THEN {st}
    ELSE LET order == IF st.current_cache_size + SumLen(S) > max_cache_size
                      THEN S
                      ELSE {CHOOSE c \in S : TRUE}
         IN UNION {UNION {CacheNewChunks(s, S \ {c}) : s \in MarkStored(st, c)} :
                     c \in order}

\* The filter of store_chunks calls chunk_exists on every unique chunk; each
\* call touches only the cache entries of its own digest.
RECURSIVE FilterExisting(_, _, _)
FilterExisting(st, disk, S) ==
    IF S = {} THEN [st |-> st, new |-> {}]
    ELSE LET c == CHOOSE c \in S : TRUE
             ce == chunk_exists(st, disk, c.hash)
             rest == FilterExisting(ce.st, disk, S \ {c})
         IN [st |-> rest.st,
             new |-> IF ce.exists THEN rest.new ELSE rest.new \cup {c}]

RECURSIVE WriteBatch(_, _, _)
WriteBatch(st, disk, S) ==
    IF S = {} THEN {[st |-> st, disk |-> disk]}
    ELSE LET c == CHOOSE c \in S : TRUE IN
         UNION {WriteBatch(
                   IF r.base = None THEN st
                   ELSE [st EXCEPT !.delta_cache =
                           MapPut(@, r.base,
                                  (IF r.base \in DOMAIN @ THEN @[r.base] ELSE <<>>)
                                  \o <<c.hash>>)],
                   WriteChunkFile(disk, get_chunk_path(c.hash), r.rec),
                   S \ {c}) :
                  r \in BatchRecords(st, disk, c)}

SeqRange(s) == {s[i] : i \in 1..Len(s)}

store_chunks(st, disk, chunks) ==
    IF Len(chunks) = 0
    THEN {[st |-> st, disk |-> disk, res |-> Ok(<<>>)]}
    ELSE
      LET hashes == [i \in 1..Len(chunks) |-> chunks[i].hash]
          unique_chunks == SeqRange(chunks)
          f == FilterExisting(st, disk, unique_chunks)
      IN IF f.new = {}
         THEN {[st |-> f.st, disk |-> disk, res |-> Ok(hashes)]}
         ELSE UNION {{[st |-> s, disk |-> w.disk, res |-> Ok(hashes)] :
                        s \in CacheNewChunks(w.st, f.new)} :
                     w \in WriteBatch(f.st, disk, f.new)}

\* The delta branch is taken when the search names a base that loads and
\* whose delta is small enough; every other case falls back to store_chunk.
store_chunk_with_delta(st, disk, chunk) ==
    LET ce == chunk_exists(st, disk, chunk.hash) IN
    IF ce.exists
    THEN {[st |-> ce.st, disk |-> disk, res |-> Ok(chunk.hash)]}
    ELSE UNION {
           LET b == IF base = None THEN Err("Generic")
                    ELSE load_chunk_uncached(disk, base, debug_assertions, LoadFuel(disk))
           IN IF base # None /\ b.ok /\ DeltaAccepts(b.val, chunk.data)
              THEN LET rec == [tag |-> 3, base |-> base,
                               body |-> compress_chunk_data(
                                          [new |-> chunk.data,
                                           len |-> chunk.data.len \div 2,
                                           id |-> chunk.data.id])]
                       disk1 == WriteChunkFile(disk, get_chunk_path(chunk.hash), rec)
                   IN {[st |-> [s EXCEPT !.delta_cache =
                                  MapPut(@, base,
                                         (IF base \in DOMAIN @ THEN @[base] ELSE <<>>)
                                         \o <<chunk.hash>>)],
                        disk |-> disk1, res |-> Ok(chunk.hash)] :
                         s \in MarkStored(ce.st, chunk)}
              ELSE store_chunk(ce.st, disk, chunk) :
           base \in find_similar_chunk(ce.st, disk, chunk.hash, chunk.data)}

load_chunk(st, disk, hash) ==
    IF hash \in DOMAIN st.chunk_cache
    THEN {[st |-> st, disk |-> disk, res |-> Ok(st.chunk_cache[hash])]}
    ELSE LET r == load_chunk_uncached(disk, hash, debug_assertions, LoadFuel(disk)) IN
         IF ~r.ok
         THEN {[st |-> st, disk |-> disk, res |-> r]}
         ELSE {[st |-> s, disk |-> disk, res |-> r] :
                 s \in maybe_cache_chunk(st, hash, r.val)}

\* The bytes read for hashes[i..], or the first error met.
RECURSIVE ReadAll(_, _, _)
ReadAll(disk, hashes, i) ==
    IF i > Len(hashes)
    THEN {Ok(<<>>)}
    ELSE LET r == load_chunk_uncached(disk, hashes[i], debug_assertions, LoadFuel(disk)) IN
         {IF ~r.ok THEN r ELSE IF ~t.ok THEN t ELSE Ok(<<r.val>> \o t.val) :
            t \in ReadAll(disk, hashes, i + 1)}
         \cup {t \in ReadAll(disk, hashes, i + 1) : ~t.ok}

\* maybe_cache_chunk for every (hash, data) pair from position i on.
RECURSIVE CacheLoaded(_, _, _, _)
CacheLoaded(st, hashes, datas, i) ==
    IF i > Len(hashes)
    THEN {st}
    ELSE UNION {CacheLoaded(s, hashes, datas, i + 1) :
                  s \in maybe_cache_chunk(st, hashes[i], datas[i])}

\* Every digest is read from disk, cached or not; a failed read fails the
\* call before anything is cached.
load_chunks(st, disk, hashes) ==
    UNION {IF ~r.ok
           THEN {[st |-> st, disk |-> disk, res |-> r]}
           ELSE {[st |-> s, disk |-> disk, res |-> r] :
                   s \in CacheLoaded(st, hashes, r.val, 1)} :
           r \in ReadAll(disk, hashes, 1)}

clear_cache(st) == NewStore

\* A collection that removes the files and leaves the caches as they were.
garbage_collect_stale_caches(st, disk, active_hashes) ==
    LET removed == {p \in DOMAIN disk : Len(p.dir) > 0 /\ full_hash(p) \notin active_hashes}
    IN [st |-> st,
        disk |-> [p \in DOMAIN disk \ removed |-> disk[p]],
        res |-> Ok(Cardinality(removed))]

\* A collection that looks at the files named by a digest only.
garbage_collect_digests_only(st, disk, active_hashes) ==
    LET removed == {p \in DOMAIN disk :
                      /\ Len(p.dir) > 0
                      /\ Len(full_hash(p)) = Len(HashDigits(0))
                      /\ full_hash(p) \notin active_hashes}
        gone == {full_hash(p) : p \in removed}
    IN [st |-> [st EXCEPT
                  !.chunk_cache = [h \in DOMAIN @ \ gone |-> @[h]],
                  !.existence_cache = @ \ gone,
                  !.negative_cache = @ \cup gone],
        disk |-> [p \in DOMAIN disk \ removed |-> disk[p]],
        res |-> Ok(Cardinality(removed))]

\* Removes every file under a fan-out directory whose name is not active.
garbage_collect(st, disk, active_hashes) ==
    LET removed == {p \in DOMAIN disk : Len(p.dir) > 0 /\ full_hash(p) \notin active_hashes}
        gone == {full_hash(p) : p \in removed}
    IN [st |-> [st EXCEPT
                  !.chunk_cache = [h \in DOMAIN @ \ gone |-> @[h]],
                  !.existence_cache = @ \ gone,
                  !.negative_cache = @ \cup gone],
        disk |-> [p \in DOMAIN disk \ removed |-> disk[p]],
        res |-> Ok(Cardinality(removed))]

(***************************************************************************)
(* Repository core: bounds and inputs                                      *)
(***************************************************************************)
MaxCommits == 2
\* The clock starts at second 1: mtime 0 is what the fast add paths record.
MaxTime == 2
MaxMissing == 1
\* The contents of the small and empty files.
AuditContents == {"", "s"}

PathSeq == <<"a">>
Paths == {PathSeq[i] : i \in 1..Len(PathSeq)}

\* The relative paths of a working tree with a directory, in path order, and
\* the characters of the strings used as paths and as add arguments.
TreeSeq == <<"a", "d/a", "d/b">>
TreePaths == {TreeSeq[i] : i \in 1..Len(TreeSeq)}
Chars(s) ==
    CASE s = "a" -> <<"a">>
      [] s = "b" -> <<"b">>
      [] s = "d" -> <<"d">>
      [] s = "d/a" -> <<"d", "/", "a">>
      [] s = "d/b" -> <<"d", "/", "b">>
NoFile == [exists |-> FALSE, data |-> EmptyData, mtime |-> 0, mode |-> 0]
File(data, mtime, mode) == [exists |-> TRUE, data |-> data, mtime |-> mtime, mode |-> mode]
FileContents == {"s", "x"}
Modes == {33188}
Messages == {"msg"}

\* The path lists add is called with; more than five arguments take the lock.
AddArgs == {<<>>, <<"a">>, <<"a", "a", "a", "a", "a", "a">>}

\* The path lists add is called with on the tree with a directory: a file, a
\* directory, a part of a path, and more than ten arguments.
TreeArgs == {<<>>, <<"a">>, <<"d">>, <<"b">>, <<"d/b", "a">>,
             <<"d", "a", "a", "a", "a", "a", "a", "a", "a", "a", "b">>}

\* Commit digests: two digits, one digest for each commit that can be stored.
\* They share the first digit, so that a one-digit prefix can match several.
\* The digest of a commit is drawn when it is computed (CommitDigestChoices).
CommitHashes == {<<0, y>> : y \in 0..(MaxCommits - 1)}
IsPrefix(p, h) == Len(p) <= Len(h) /\ SubSeq(h, 1, Len(p)) = p
Targets == {SubSeq(h, 1, n) : h \in CommitHashes, n \in 0..2} \cup {<<1>>}

NoLoc == [op |-> "none"]
NoRet == [op |-> "none"]
Running(op) == [op |-> op, res |-> Err("running")]

(***************************************************************************)
(* Files and manifests                                                     *)
(***************************************************************************)
is_executable(mode) ==
    \/ mode % 2 = 1
    \/ (mode \div 8) % 2 = 1
    \/ (mode \div 64) % 2 = 1

FileRecord(path, chunks, size, mtime, mode) ==
    [path |-> path, chunks |-> chunks, size |-> size, mtime |-> mtime,
     permissions |-> mode, is_executable |-> is_executable(mode)]

\* FileRecord::from_path_with_metadata
from_path_with_metadata(path, chunk_hashes, file, mtime) ==
    FileRecord(path, chunk_hashes, file.data.len, mtime, file.mode)

\* FileRecord::from_path
from_path(path, chunk_hashes, file) ==
    FileRecord(path, chunk_hashes, file.data.len, file.mtime, file.mode)

is_different_from_disk(record, wt) ==
    \/ wt[record.path] = NoFile
    \/ /\ wt[record.path] # NoFile
       /\ \/ wt[record.path].mtime # record.mtime
          \/ wt[record.path].data.len # record.size
          \/ wt[record.path].mode # record.permissions

\* The CHUNK_SIZE pieces of data, in byte order.
FixedPieces(data) ==
    [k \in 1..NumFixedChunks(data.len) |->
        FileChunk(Slice(data.id, data.off + (k - 1) * CHUNK_SIZE,
                        Min(CHUNK_SIZE, data.len - (k - 1) * CHUNK_SIZE)))]

simple_fixed_chunking(data) ==
    IF data.len = 0 THEN <<FileChunk(EmptyData)>> ELSE FixedPieces(data)

\* chunk_file: chunk_regular_file and chunk_large_file both cut at CHUNK_SIZE
\* and give no chunk for an empty file.
chunk_file(data) == FixedPieces(data)

\* The chunks add_files_ultra_fast makes of one file.
UltraFastChunks(data) ==
    IF data.len <= TINY_FILE_THRESHOLD
    THEN <<FileChunk(data)>>
    ELSE IF data.len <= SMALL_FILE_THRESHOLD
         THEN <<FileChunk(data)>>
         ELSE simple_fixed_chunking(data)

HashesOf(chunks) == [i \in 1..Len(chunks) |-> chunks[i].hash]

\* Bytes of the chunks put end to end: adjacent ranges of one content merge.
RECURSIVE Concat(_)
Concat(datas) ==
    IF Len(datas) = 0 THEN EmptyData
    ELSE LET rest == Concat(Tail(datas))
             d == Head(datas)
         IN IF d.len = 0 THEN rest
            ELSE IF rest.len = 0 THEN d
            ELSE IF rest.id = d.id /\ rest.off = d.off + d.len
                 THEN [id |-> d.id, off |-> d.off, len |-> d.len + rest.len]
                 ELSE [id |-> "junk", off |-> 0, len |-> d.len + rest.len]

RECURSIVE Flatten(_)
Flatten(ss) == IF Len(ss) = 0 THEN <<>> ELSE Head(ss) \o Flatten(Tail(ss))

ExistingPaths(wt) == {p \in DOMAIN wt : wt[p] # NoFile}

\* A set of paths as a list in path order.
PathList(S) == SelectSeq(TreeSeq, LAMBDA p : p \in S)

\* Database::store_files: one transaction of INSERT OR REPLACE
RECURSIVE store_files(_, _)
store_files(table, records) ==
    IF Len(records) = 0 THEN table
    ELSE store_files(MapPut(table, Head(records).path, Head(records)), Tail(records))

\* The rows written before the failing one stay.
store_files_failed_partial(table, records, k) == store_files(table, SubSeq(records, 1, k))

\* Database::store_files when the execute of row k+1 (or the commit of the
\* transaction, k = Len(records)) fails: the Transaction is dropped
\* uncommitted, which rolls it back.
store_files_failed(table, records, k) == table

\* find_all_files: every file of the working tree (none of the paths is ignored)
find_all_files(wt) == ExistingPaths(wt)

find_modified_files(table, wt) ==
    {p \in DOMAIN table : is_different_from_disk(table[p], wt)}

\* scan_working_directory
scan_working_directory(wt) ==
    [p \in ExistingPaths(wt) |->
        from_path(p, HashesOf(chunk_file(wt[p].data)), wt[p])]

has_uncommitted_changes(table, wt) == table # scan_working_directory(wt)

\* add_files_nano_fast, up to its two batch writes: one chunk per file.
NanoFastPlan(args, wt) ==
    LET found == SelectSeq(args, LAMBDA a : a \in DOMAIN wt /\ wt[a] # NoFile) IN
    [chunks  |-> [i \in 1..Len(found) |-> FileChunk(wt[found[i]].data)],
     records |-> [i \in 1..Len(found) |->
                    FileRecord(found[i], <<compute_chunk_hash(wt[found[i]].data)>>,
                               wt[found[i]].data.len, 0, wt[found[i]].mode)],
     count   |-> Len(found),
     err     |-> NoErr]

\* add_files_ultra_fast, up to its two batch writes.
UltraFastPlan(list, wt) ==
    LET tiny == Len(list) <= 5
    IN IF \E i \in 1..Len(list) : wt[list[i]] = NoFile
       THEN [chunks |-> <<>>, records |-> <<>>, count |-> 0, err |-> "Io"]
       ELSE [chunks  |-> Flatten([i \in 1..Len(list) |-> UltraFastChunks(wt[list[i]].data)]),
             records |-> [i \in 1..Len(list) |->
                            from_path_with_metadata(
                                list[i], HashesOf(UltraFastChunks(wt[list[i]].data)),
                                wt[list[i]],
                                IF tiny THEN 0 ELSE wt[list[i]].mtime)],
             count   |-> Len(list),
             err     |-> NoErr]

\* add_files: nothing to do for an empty list, the length of the list for a
\* dry run.
AddFilesPlan(list, wt, dry_run) ==
    IF Len(list) = 0
    THEN [chunks |-> <<>>, records |-> <<>>, count |-> 0, err |-> NoErr]
    ELSE IF dry_run
    THEN [chunks |-> <<>>, records |-> <<>>, count |-> Len(list), err |-> NoErr]
    ELSE UltraFastPlan(list, wt)

\* str::contains
contains(hay, needle) ==
    \E i \in 0..(Len(hay) - Len(needle)) : SubSeq(hay, i + 1, i + Len(needle)) = needle

\* Path::is_dir of the argument: some file lies under it.
is_dir(pattern, wt) ==
    \E p \in ExistingPaths(wt) : IsPrefix(Chars(pattern) \o <<"/">>, Chars(p))

\* find_files_matching: the file, the files under the directory, or the files
\* whose relative path contains the argument (none of the paths is ignored).
find_files_matching(pattern, wt) ==
    IF pattern \in ExistingPaths(wt)
    THEN <<pattern>>
    ELSE IF is_dir(pattern, wt)
    THEN PathList({p \in ExistingPaths(wt) :
                     IsPrefix(Chars(pattern) \o <<"/">>, Chars(p))})
    ELSE PathList({p \in ExistingPaths(wt) : contains(Chars(p), Chars(pattern))})

\* Blaze::add, up to the batch writes of the path it takes.
AddPlan(args, all, dry_run, table, wt) ==
    IF all THEN AddFilesPlan(PathList(find_all_files(wt)), wt, dry_run)
    ELSE IF Len(args) = 0
    THEN AddFilesPlan(PathList(find_modified_files(table, wt)), wt, dry_run)
    ELSE IF Len(args) <= 10 /\ ~dry_run
    THEN NanoFastPlan(args, wt)
    ELSE AddFilesPlan(Flatten([i \in 1..Len(args) |-> find_files_matching(args[i], wt)]),
                      wt, dry_run)

(***************************************************************************)
(* Trees and commits                                                       *)
(***************************************************************************)
\* create_tree_hash: the hasher is fed, in path order, path ":" chunks "\n";
\* the digest is the hash of that byte string.
create_tree_hash(table) ==
    LET list == PathList(DOMAIN table) IN
    [i \in 1..Len(list) |-> <<list[i], ":", table[list[i]].chunks, "\n">>]

\* The group size of create_tree_hash_parallel and the largest file count for
\* which commit hashes sequentially.
PAR_CHUNK_SIZE == 100
TREE_SEQUENTIAL_MAX == 100

\* create_tree_hash_parallel: the entries, in path order, are cut into groups
\* of PAR_CHUNK_SIZE; each group is hashed as create_tree_hash hashes its
\* entries, and the final hasher is fed the hex digests of the groups.
create_tree_hash_parallel(table) ==
    LET list == PathList(DOMAIN table)
        entries == [i \in 1..Len(list) |-> <<list[i], ":", table[list[i]].chunks, "\n">>]
        groups == (Len(list) + PAR_CHUNK_SIZE - 1) \div PAR_CHUNK_SIZE
    IN [g \in 1..groups |->
          <<"hex", SubSeq(entries, (g - 1) * PAR_CHUNK_SIZE + 1,
                          Min(g * PAR_CHUNK_SIZE, Len(list)))>>]

\* What the commit hasher is fed.
CommitHashInput(parent, message, timestamp, nfiles, tree_hash) ==
    [parent |-> parent, message |-> message, timestamp |-> timestamp,
     nfiles |-> nfiles, tree |-> tree_hash]

HashInputOf(c) ==
    CommitHashInput(c.parent, c.message, c.timestamp,
                    Cardinality(DOMAIN c.files), c.tree_hash)

\* BLAKE3 of the commit fields: the digest a stored commit already has for the
\* same input, otherwise a digest no stored commit has.
CommitDigestChoices(input) ==
    IF \E c \in commits : HashInputOf(c) = input
    THEN {c.hash : c \in {d \in commits : HashInputOf(d) = input}}
    ELSE IF CommitHashes \ {c.hash : c \in commits} # {}
    THEN CommitHashes \ {c.hash : c \in commits}
    ELSE {<<1, Cardinality(commits)>>}

\* The characters '_' and '%' in a string, next to the digits of a digest.
UNDERSCORE == -1
PERCENT == -2

\* SQLite's LIKE: '%' stands for any run of characters, '_' for any one
\* character, another character for itself.
RECURSIVE Like(_, _)
Like(str, pattern) ==
    IF Len(pattern) = 0 THEN Len(str) = 0
    ELSE IF Head(pattern) = PERCENT
    THEN \E k \in 0..Len(str) : Like(SubSeq(str, k + 1, Len(str)), Tail(pattern))
    ELSE /\ Len(str) > 0
         /\ Head(pattern) = UNDERSCORE \/ Head(pattern) = Head(str)
         /\ Like(Tail(str), Tail(pattern))

\* Database::get_commit: hash LIKE 'prefix%' ORDER BY timestamp DESC LIMIT 1.
\* The rows it can return; none when the set is empty.
get_commit(prefix) ==
    LET matches == {c \in commits : Like(c.hash, prefix \o <<PERCENT>>)} IN
    {c \in matches : \A d \in matches : d.timestamp <= c.timestamp}

get_head_commit == IF "HEAD" \in DOMAIN refs THEN refs["HEAD"] ELSE None

\* Only the staging manifests are read.
get_active_chunk_hashes_staging ==
    UNION {SeqRange(files[p].chunks) : p \in DOMAIN files}

\* Blaze::get_active_chunk_hashes
get_active_chunk_hashes ==
    UNION {SeqRange(files[p].chunks) : p \in DOMAIN files}
    \cup UNION {UNION {SeqRange(c.files[p].chunks) : p \in DOMAIN c.files} : c \in commits}

(***************************************************************************)
(* Repository core: operations, one action per step between two writes     *)
(***************************************************************************)
\* Dropping the lock File releases the flock.
Release(p) == IF lock_holder = p THEN 0 ELSE lock_holder

Return(p, op, res) ==
    /\ pc' = [pc EXCEPT ![p] = "idle"]
    /\ loc' = [loc EXCEPT ![p] = NoLoc]
    /\ ret' = [ret EXCEPT ![p] = [op |-> op, res |-> res]]
    /\ lock_holder' = Release(p)

\* The command returns and its process ends (cli.rs builds one Blaze per run).
Exit(p, op, res) ==
    /\ Return(p, op, res)
    /\ stores' = [stores EXCEPT ![p] = NewStore]

Goto(p, label, locals) ==
    /\ pc' = [pc EXCEPT ![p] = label]
    /\ loc' = [loc EXCEPT ![p] = locals]
    /\ ret' = [ret EXCEPT ![p] = Running(locals.op)]

\* Blaze::add up to the first write: takes the lock for more than five paths
\* or --all, finds the files, reads and chunks them.
AddBegin(p, args, all, dry_run) ==
    /\ pc[p] = "idle"
    /\ LET use_lock == Len(args) > 5 \/ all
           plan == AddPlan(args, all, dry_run, files, worktree)
       IN IF use_lock /\ lock_holder # 0
          THEN Return(p, "add", Err("Generic"))
          ELSE IF plan.err # NoErr
          THEN Return(p, "add", Err(plan.err))
          ELSE IF Len(plan.records) = 0
          THEN Return(p, "add", Ok(plan.count))
          ELSE /\ Goto(p, "add_chunks",
                       [op |-> "add", args |-> args, all |-> all,
                        files_at_call |-> files,
                        chunks |-> plan.chunks,
                        records |-> plan.records, count |-> plan.count])
               /\ lock_holder' = IF use_lock THEN p ELSE lock_holder
    /\ UNCHANGED <<worktree, files, commits, refs, chunks_dir, stores, now,
                   debug_assertions, is_repo>>

\* self.chunk_store.store_chunks(..) of add and of commit --all
AddStoreChunks(p) ==
    /\ pc[p] = "add_chunks"
    /\ \E o \in store_chunks(stores[p], chunks_dir, loc[p].chunks) :
         /\ stores' = [stores EXCEPT ![p] = o.st]
         /\ chunks_dir' = o.disk
    /\ pc' = [pc EXCEPT ![p] = "add_files"]
    /\ UNCHANGED <<worktree, files, commits, refs, lock_holder, loc, ret, now,
                   debug_assertions, is_repo>>

\* self.database.store_files(..) of add and of commit --all
AddStoreFiles(p) ==
    /\ pc[p] = "add_files"
    /\ files' = store_files(files, loc[p].records)
    /\ IF loc[p].op = "commit"
       THEN /\ pc' = [pc EXCEPT ![p] = "commit_read"]
            /\ UNCHANGED <<loc, ret, lock_holder, stores>>
       ELSE Exit(p, "add", Ok(loc[p].count))
    /\ UNCHANGED <<worktree, commits, refs, chunks_dir, now, debug_assertions, is_repo>>

\* self.database.store_files(..) returns an error (the database cannot be
\* written): add, or commit --all, returns it.
AddStoreFilesFail(p) ==
    /\ pc[p] = "add_files"
    /\ \E k \in 0..Len(loc[p].records) :
          files' = store_files_failed(files, loc[p].records, k)
    /\ Exit(p, loc[p].op, Err("Generic"))
    /\ UNCHANGED <<worktree, commits, refs, chunks_dir, now, debug_assertions, is_repo>>

\* Blaze::commit up to the staging read: takes the lock; with all it re-adds
\* the modified files first.
CommitBegin(p, message, all, allow_empty) ==
    /\ pc[p] = "idle"
    /\ LET plan == IF all
                   THEN AddFilesPlan(PathList(find_modified_files(files, worktree)),
                                     worktree, FALSE)
                   ELSE AddFilesPlan(<<>>, worktree, FALSE)
           locals == [op |-> "commit", message |-> message, all |-> all,
                      allow_empty |-> allow_empty,
                      chunks |-> plan.chunks, records |-> plan.records,
                      count |-> plan.count,
                      files_at_call |-> files, head_at_call |-> refs["HEAD"]]
       IN IF lock_holder # 0
          THEN Return(p, "commit", Err("Generic"))
          ELSE IF plan.err # NoErr
          THEN Return(p, "commit", Err(plan.err))
          ELSE /\ Goto(p, IF plan.count = 0 THEN "commit_read" ELSE "add_chunks", locals)
               /\ lock_holder' = p
    /\ UNCHANGED <<worktree, files, commits, refs, chunks_dir, stores, now,
                   debug_assertions, is_repo>>

CommitRecord(hash, parent, message, timestamp, tree_hash, table) ==
    [hash |-> hash, parent |-> parent, message |-> message,
     timestamp |-> timestamp, tree_hash |-> tree_hash, files |-> table]

\* The check made without looking at allow_empty.
EmptyCommitRefused_always(staged_files, allow_empty) == staged_files = EmptyMap

\* if staged_files.is_empty() && !allow_empty
EmptyCommitRefused(staged_files, allow_empty) ==
    staged_files = EmptyMap /\ ~allow_empty

\* Reads staging, refuses an empty commit, reads HEAD, computes the digests.
CommitRead(p) ==
    /\ pc[p] = "commit_read"
    /\ IF EmptyCommitRefused(files, loc[p].allow_empty)
       THEN Exit(p, "commit", Err("Repository"))
       ELSE LET parent_hash == get_head_commit
                tree_hash == IF Cardinality(DOMAIN files) <= TREE_SEQUENTIAL_MAX
                             THEN create_tree_hash(files)
                             ELSE create_tree_hash_parallel(files)
                input == CommitHashInput(parent_hash, loc[p].message, now,
                                         Cardinality(DOMAIN files), tree_hash)
            IN \E h \in CommitDigestChoices(input) :
                 /\ loc' = [loc EXCEPT ![p] =
                       [op |-> "commit",
                        files_at_call |-> loc[p].files_at_call,
                        head_at_call |-> loc[p].head_at_call,
                        all |-> loc[p].all,
                        allow_empty |-> loc[p].allow_empty,
                        staged_files |-> files,
                        commit_record |->
                           CommitRecord(h, parent_hash, loc[p].message, now,
                                        tree_hash, files)]]
                 /\ pc' = [pc EXCEPT ![p] = "commit_store"]
                 /\ UNCHANGED <<ret, lock_holder, stores>>
    /\ UNCHANGED <<worktree, files, commits, refs, chunks_dir, now, debug_assertions, is_repo>>

\* HEAD is written where the record should be.
CommitStoreCommit_head(p) ==
    /\ pc[p] = "commit_store"
    /\ refs' = [refs EXCEPT !["HEAD"] = loc[p].commit_record.hash]
    /\ pc' = [pc EXCEPT ![p] = "commit_ref"]
    /\ UNCHANGED <<worktree, files, commits, chunks_dir, lock_holder, loc, stores,
                   ret, now, debug_assertions, is_repo>>

\* self.database.store_commit(&commit_record): a plain INSERT, which fails on
\* a digest that is already a primary key.
CommitStoreCommit(p) ==
    /\ pc[p] = "commit_store"
    /\ IF \E c \in commits : c.hash = loc[p].commit_record.hash
       THEN /\ Exit(p, "commit", Err("Generic"))
            /\ UNCHANGED commits
       ELSE /\ commits' = commits \cup {loc[p].commit_record}
            /\ pc' = [pc EXCEPT ![p] = "commit_ref"]
            /\ UNCHANGED <<loc, ret, lock_holder, stores>>
    /\ UNCHANGED <<worktree, files, refs, chunks_dir, now, debug_assertions, is_repo>>

\* The staging table is emptied when HEAD is written (Database::clear_files).
CommitStoreRef_clear(p) ==
    /\ pc[p] = "commit_ref"
    /\ refs' = [refs EXCEPT !["HEAD"] = loc[p].commit_record.hash]
    /\ files' = EmptyMap
    /\ Exit(p, "commit", Ok(loc[p].commit_record.hash))
    /\ UNCHANGED <<worktree, commits, chunks_dir, now, debug_assertions, is_repo>>

\* self.database.store_ref("HEAD", Some(&commit_hash))
CommitStoreRef(p) ==
    /\ pc[p] = "commit_ref"
    /\ refs' = [refs EXCEPT !["HEAD"] = loc[p].commit_record.hash]
    /\ Exit(p, "commit", Ok(loc[p].commit_record.hash))
    /\ UNCHANGED <<worktree, files, commits, chunks_dir, now, debug_assertions, is_repo>>

\* Blaze::checkout up to restore_files: lock, uncommitted-changes check,
\* commit lookup.
CheckoutBegin(p, target, force) ==
    /\ pc[p] = "idle"
    /\ IF lock_holder # 0
       THEN Return(p, "checkout", Err("Generic"))
       ELSE IF ~force /\ has_uncommitted_changes(files, worktree)
       THEN Return(p, "checkout", Err("Repository"))
       ELSE IF get_commit(target) = {}
       THEN Return(p, "checkout", Err("Repository"))
       ELSE \E c \in get_commit(target) :
              /\ Goto(p, "checkout_restore",
                      [op |-> "checkout", target |-> target, force |-> force,
                       commit |-> c, head_at_call |-> refs["HEAD"]])
              /\ lock_holder' = p
    /\ UNCHANGED <<worktree, files, commits, refs, chunks_dir, stores, now,
                   debug_assertions, is_repo>>

\* The chunks of one file, loaded in order; a chunk that fails is left out.
RECURSIVE LoadAll_skip_failed(_, _, _)
LoadAll_skip_failed(st, disk, hashes) ==
    IF Len(hashes) = 0 THEN {[st |-> st, res |-> Ok(<<>>)]}
    ELSE UNION {{[st |-> r.st,
                  res |-> IF o.res.ok THEN Ok(<<o.res.val>> \o r.res.val) ELSE r.res] :
                   r \in LoadAll_skip_failed(o.st, disk, Tail(hashes))} :
                  o \in load_chunk(st, disk, Head(hashes))}

\* The chunks of one file, loaded in order; the first failure ends the loading.
RECURSIVE LoadAll(_, _, _)
LoadAll(st, disk, hashes) ==
    IF Len(hashes) = 0 THEN {[st |-> st, res |-> Ok(<<>>)]}
    ELSE UNION {IF ~o.res.ok
                THEN {[st |-> o.st, res |-> o.res]}
                ELSE {[st |-> r.st,
                       res |-> IF r.res.ok THEN Ok(<<o.res.val>> \o r.res.val) ELSE r.res] :
                        r \in LoadAll(o.st, disk, Tail(hashes))} :
                  o \in load_chunk(st, disk, Head(hashes))}

\* Blaze::restore_files over the records not yet written (files.values() order)
RECURSIVE restore_files(_, _, _, _, _)
restore_files(st, disk, wt, table, todo) ==
    IF todo = {} THEN {[st |-> st, wt |-> wt, res |-> Ok(0)]}
    ELSE UNION {UNION {IF ~l.res.ok
                       THEN {[st |-> l.st, wt |-> wt, res |-> l.res]}
                       ELSE restore_files(
                              l.st, disk,
                              [wt EXCEPT ![table[p].path] =
                                  File(Concat(l.res.val), now, table[p].permissions)],
                              table, todo \ {p}) :
                         l \in LoadAll(st, disk, table[p].chunks)} :
                  p \in todo}

CheckoutRestore(p) ==
    /\ pc[p] = "checkout_restore"
    /\ \E o \in restore_files(stores[p], chunks_dir, worktree,
                              loc[p].commit.files, DOMAIN loc[p].commit.files) :
         /\ worktree' = o.wt
         /\ IF o.res.ok
            THEN /\ pc' = [pc EXCEPT ![p] = "checkout_ref"]
                 /\ stores' = [stores EXCEPT ![p] = o.st]
                 /\ UNCHANGED <<loc, ret, lock_holder>>
            ELSE Exit(p, "checkout", o.res)
    /\ UNCHANGED <<files, commits, refs, chunks_dir, now, debug_assertions, is_repo>>

\* HEAD is given the string the user typed.
CheckoutStoreRef_target(p) ==
    /\ pc[p] = "checkout_ref"
    /\ refs' = [refs EXCEPT !["HEAD"] = loc[p].target]
    /\ Exit(p, "checkout", Ok(loc[p].commit.hash))
    /\ UNCHANGED <<worktree, files, commits, chunks_dir, now, debug_assertions, is_repo>>

\* HEAD is updated and staging is replaced by the commit's manifests.
CheckoutStoreRef_reset_staging(p) ==
    /\ pc[p] = "checkout_ref"
    /\ refs' = [refs EXCEPT !["HEAD"] = loc[p].commit.hash]
    /\ files' = loc[p].commit.files
    /\ Exit(p, "checkout", Ok(loc[p].commit.hash))
    /\ UNCHANGED <<worktree, commits, chunks_dir, now, debug_assertions, is_repo>>

\* self.database.store_ref("HEAD", Some(&commit.hash))
CheckoutStoreRef(p) ==
    /\ pc[p] = "checkout_ref"
    /\ refs' = [refs EXCEPT !["HEAD"] = loc[p].commit.hash]
    /\ Exit(p, "checkout", Ok(loc[p].commit.hash))
    /\ UNCHANGED <<worktree, files, commits, chunks_dir, now, debug_assertions, is_repo>>

\* A comparison that looks at the chunk lists only.
detect_changes_chunks_only(old_records, new_records) ==
    {[change_type |-> "Modified", path |-> p] :
        p \in {q \in DOMAIN new_records \cap DOMAIN old_records :
                 old_records[q].chunks # new_records[q].chunks}}
    \cup {[change_type |-> "Added", path |-> p] :
            p \in DOMAIN new_records \ DOMAIN old_records}
    \cup {[change_type |-> "Deleted", path |-> p] :
            p \in DOMAIN old_records \ DOMAIN new_records}

\* files::changes::detect_changes
detect_changes(old_records, new_records) ==
    {[change_type |-> "Modified", path |-> p] :
        p \in {q \in DOMAIN new_records \cap DOMAIN old_records :
                 old_records[q] # new_records[q]}}
    \cup {[change_type |-> "Added", path |-> p] :
            p \in DOMAIN new_records \ DOMAIN old_records}
    \cup {[change_type |-> "Deleted", path |-> p] :
            p \in DOMAIN old_records \ DOMAIN new_records}

\* Blaze::status: returns Ok(()) after printing the two change sets it has
\* computed.  No lock.
Status(p) ==
    /\ pc[p] = "idle"
    /\ LET staged_files == files
           working_files == scan_working_directory(worktree)
           head == {c \in commits : c.hash = get_head_commit}
           committed_files == IF head = {} THEN EmptyMap
                              ELSE (CHOOSE c \in head : TRUE).files
       IN ret' = [ret EXCEPT ![p] =
                    [op |-> "status", res |-> Ok(0),
                     staged_changes  |-> detect_changes(committed_files, staged_files),
                     working_changes |-> detect_changes(staged_files, working_files)]]
    /\ UNCHANGED <<worktree, files, commits, refs, chunks_dir, lock_holder, pc, loc,
                   stores, now, debug_assertions, is_repo>>

\* Database::get_all_chunk_hashes: the rows of the chunks table.  Blaze never
\* calls Database::store_chunk or store_chunks, so the table has no row.
get_all_chunk_hashes == {}

\* Database::check_integrity: PRAGMA integrity_check answers "ok".
check_integrity == {}

\* Blaze::verify_chunks: the rows of the chunks table without a chunk file.
verify_chunks(st, disk) ==
    Cardinality({h \in get_all_chunk_hashes : ~chunk_exists(st, disk, h).exists})

\* Blaze::verify_file_references: one issue for each chunk of a staging
\* manifest that has no chunk file.
verify_file_references(st, disk, table) ==
    Cardinality(UNION {{<<path, i>> :
                           i \in {j \in 1..Len(table[path].chunks) :
                                    ~chunk_exists(st, disk, table[path].chunks[j]).exists}} :
                         path \in DOMAIN table})

\* Blaze::verify.  No lock; fix deletes rows of the chunks table only.
Verify(p, fix, chunks) ==
    /\ pc[p] = "idle"
    /\ ret' = [ret EXCEPT ![p] =
                 [op |-> "verify", fix |-> fix, chunks |-> chunks,
                  res |-> Ok(Cardinality(check_integrity)
                             + (IF chunks THEN verify_chunks(stores[p], chunks_dir) ELSE 0)
                             + verify_file_references(stores[p], chunks_dir, files))]]
    /\ UNCHANGED <<worktree, files, commits, refs, chunks_dir, lock_holder, pc, loc,
                   stores, now, debug_assertions, is_repo>>

\* An init that stores HEAD without digest wherever it runs.
init_store_head(repo, table) == MapPut(table, "HEAD", None)

\* Blaze::init, the refs table it leaves: nothing is done in a repository;
\* otherwise the database is created (CREATE TABLE IF NOT EXISTS) and HEAD
\* is stored without digest.
init(repo, table) == IF repo THEN table ELSE MapPut(table, "HEAD", None)

\* The .blazeignore and config files init writes are not tracked paths.
InitRepo(p) ==
    /\ pc[p] = "idle"
    /\ is_repo' = TRUE
    /\ refs' = init(is_repo, refs)
    /\ Return(p, "init", Ok(0))
    /\ UNCHANGED <<worktree, files, commits, chunks_dir, stores, now,
                   debug_assertions>>

\* Blaze::create_branch: store_ref(name, HEAD's digest)
CreateBranch(p, name) ==
    /\ pc[p] = "idle"
    /\ IF ~is_repo
       THEN /\ Return(p, "create_branch", Err("Repository"))
            /\ UNCHANGED refs
       ELSE /\ refs' = MapPut(refs, name, get_head_commit)
            /\ Return(p, "create_branch", Ok(0))
    /\ UNCHANGED <<worktree, files, commits, chunks_dir, stores, now,
                   debug_assertions, is_repo>>

\* A delete_branch that does not look at the name.
delete_branch_any(table, name) ==
    IF name \in DOMAIN table
    THEN [refs |-> MapDel(table, name), res |-> Ok(0)]
    ELSE [refs |-> table, res |-> Err("Repository")]

\* Blaze::delete_branch after the is_repo check: HEAD is refused, another
\* name is deleted when it has a row.
delete_branch(table, name) ==
    IF name = "HEAD"
    THEN [refs |-> table, res |-> Err("Repository")]
    ELSE IF name \in DOMAIN table
    THEN [refs |-> MapDel(table, name), res |-> Ok(0)]
    ELSE [refs |-> table, res |-> Err("Repository")]

DeleteBranch(p, name) ==
    /\ pc[p] = "idle"
    /\ IF ~is_repo
       THEN /\ Return(p, "delete_branch", Err("Repository"))
            /\ UNCHANGED refs
       ELSE /\ refs' = delete_branch(refs, name).refs
            /\ ret' = [ret EXCEPT ![p] = [op |-> "delete_branch", name |-> name,
                                          res |-> delete_branch(refs, name).res]]
            /\ UNCHANGED <<pc, loc, lock_holder>>
    /\ UNCHANGED <<worktree, files, commits, chunks_dir, stores, now,
                   debug_assertions, is_repo>>

\* Blaze::optimize up to the collection: no lock is taken; with gc it reads
\* the active digests.
OptimizeBegin(p, gc, dry_run) ==
    /\ pc[p] = "idle"
    /\ IF gc
       THEN /\ Goto(p, "optimize_gc",
                    [op |-> "optimize", dry_run |-> dry_run,
                     active_chunks |-> get_active_chunk_hashes])
            /\ UNCHANGED lock_holder
       ELSE Return(p, "optimize", Ok(0))
    /\ UNCHANGED <<worktree, files, commits, refs, chunks_dir, stores, now,
                   debug_assertions, is_repo>>

\* self.chunk_store.garbage_collect(&active_chunks), then vacuum
OptimizeGC(p) ==
    /\ pc[p] = "optimize_gc"
    /\ LET o == garbage_collect(stores[p], chunks_dir, loc[p].active_chunks) IN
       IF loc[p].dry_run
       THEN /\ Exit(p, "optimize", Ok(0))
            /\ UNCHANGED chunks_dir
       ELSE /\ chunks_dir' = o.disk
            /\ Exit(p, "optimize", o.res)
    /\ UNCHANGED <<worktree, files, commits, refs, now, debug_assertions, is_repo>>

(***************************************************************************)
(* Environment: the user edits the working tree, time passes, a command    *)
(* line process ends and the next one starts, a process is killed          *)
(***************************************************************************)
Idle == \A p \in Procs : pc[p] = "idle"

WriteFile(path, id, mode) ==
    /\ Idle
    /\ worktree' = [worktree EXCEPT ![path] =
          File(Slice(id, 0, ContentLen(id)), now, mode)]
    /\ worktree' # worktree
    /\ UNCHANGED <<files, commits, refs, chunks_dir, lock_holder, pc, loc, stores,
                   ret, now, debug_assertions, is_repo>>

DeleteFile(path) ==
    /\ Idle
    /\ worktree[path] # NoFile
    /\ worktree' = [worktree EXCEPT ![path] = NoFile]
    /\ UNCHANGED <<files, commits, refs, chunks_dir, lock_holder, pc, loc, stores,
                   ret, now, debug_assertions, is_repo>>

Tick ==
    /\ Idle
    /\ now < MaxTime
    /\ now' = now + 1
    /\ UNCHANGED <<worktree, files, commits, refs, chunks_dir, lock_holder, pc, loc,
                   stores, ret, debug_assertions, is_repo>>

\* The process is killed inside an operation: its lock and caches go, what it
\* wrote stays.
Crash(p) ==
    /\ pc[p] # "idle"
    /\ pc' = [pc EXCEPT ![p] = "idle"]
    /\ ret' = [ret EXCEPT ![p] = [op |-> loc[p].op, res |-> Err("crashed"), at |-> pc[p],
                                  hash |-> IF pc[p] \in {"commit_store", "commit_ref"}
                                           THEN loc[p].commit_record.hash
                                           ELSE None]]
    /\ loc' = [loc EXCEPT ![p] = NoLoc]
    /\ lock_holder' = Release(p)
    /\ stores' = [stores EXCEPT ![p] = NewStore]
    /\ UNCHANGED <<worktree, files, commits, refs, chunks_dir, now, debug_assertions, is_repo>>

\* The digests in use whose chunk file is missing or does not decode to bytes
\* with that digest.
DamagedDigests ==
    {h \in get_active_chunk_hashes :
        ~load_chunk_uncached(chunks_dir, h, TRUE, LoadFuel(chunks_dir)).ok}

\* A chunk file is lost (deleted by hand, disk damage): at most MaxMissing
\* digests in use are without a sound file at any time.
RemoveChunkFile(path) ==
    /\ Idle
    /\ path \in DOMAIN chunks_dir
    /\ Cardinality(DamagedDigests) < MaxMissing
    /\ chunks_dir' = MapDel(chunks_dir, path)
    /\ UNCHANGED <<worktree, files, commits, refs, lock_holder, pc, loc, stores,
                   ret, now, debug_assertions, is_repo>>

\* A file that was created and not written to its end.
Truncated == [tag |-> -1, body |-> EmptyData]

\* What a damaged chunk file can hold: a well-formed record of other bytes, or
\* bytes that are no record.
AlteredRecords ==
    {compress_chunk_data(Slice(id, 0, ContentLen(id))) : id \in AuditContents}
    \cup {Truncated}

\* A chunk file is overwritten (by hand, disk damage).
AlterChunkFile(path, rec) ==
    /\ Idle
    /\ path \in DOMAIN chunks_dir
    /\ chunks_dir[path] # rec
    /\ Cardinality(DamagedDigests) < MaxMissing
    /\ chunks_dir' = [chunks_dir EXCEPT ![path] = rec]
    /\ UNCHANGED <<worktree, files, commits, refs, lock_holder, pc, loc, stores,
                   ret, now, debug_assertions, is_repo>>

\* The process is killed inside store_chunks: the parallel writes have put
\* some of the new chunk files in place and left others at their .tmp path,
\* not written to their end.
AddStoreChunksKilled(p) ==
    /\ pc[p] = "add_chunks"
    /\ LET new == FilterExisting(stores[p], chunks_dir, SeqRange(loc[p].chunks)).new IN
       \E written \in SUBSET new :
         \E begun \in SUBSET (new \ written) :
           \E w \in WriteBatch(stores[p], chunks_dir, written) :
              LET tmps == {with_extension_tmp(get_chunk_path(c.hash)) : c \in begun} IN
              chunks_dir' = [path \in DOMAIN w.disk \cup tmps |->
                               IF path \in tmps THEN Truncated ELSE w.disk[path]]
    /\ pc' = [pc EXCEPT ![p] = "idle"]
    /\ ret' = [ret EXCEPT ![p] = [op |-> loc[p].op, res |-> Err("crashed"),
                                  at |-> "store_chunks", hash |-> None]]
    /\ loc' = [loc EXCEPT ![p] = NoLoc]
    /\ lock_holder' = Release(p)
    /\ stores' = [stores EXCEPT ![p] = NewStore]
    /\ UNCHANGED <<worktree, files, commits, refs, now, debug_assertions, is_repo>>

(***************************************************************************)
(* Specifications                                                          *)
(***************************************************************************)
\* After init: an empty repository whose HEAD ref has no digest.  The command
\* line binary is a release build.
Init ==
    /\ worktree = [p \in Paths |-> NoFile]
    /\ files = EmptyMap
    /\ commits = {}
    /\ refs = [n \in {"HEAD"} |-> None]
    /\ chunks_dir = EmptyMap
    /\ lock_holder = 0
    /\ pc = [p \in Procs |-> "idle"]
    /\ loc = [p \in Procs |-> NoLoc]
    /\ stores = [p \in Procs |-> NewStore]
    /\ ret = [p \in Procs |-> NoRet]
    /\ now = 1
    /\ debug_assertions = FALSE
    /\ is_repo = TRUE

RepoStep(p) ==
    \/ \E args \in AddArgs, all \in BOOLEAN, dry_run \in BOOLEAN :
          AddBegin(p, args, all, dry_run)
    \/ AddStoreChunks(p)
    \/ AddStoreFiles(p)
    \/ \E m \in Messages, all \in BOOLEAN, allow_empty \in BOOLEAN :
          /\ Cardinality(commits) < MaxCommits
          /\ CommitBegin(p, m, all, allow_empty)
    \/ CommitRead(p)
    \/ CommitStoreCommit(p)
    \/ CommitStoreRef(p)
    \/ \E t \in Targets, force \in BOOLEAN : CheckoutBegin(p, t, force)
    \/ CheckoutRestore(p)
    \/ CheckoutStoreRef(p)
    \/ \E gc \in BOOLEAN, dry_run \in BOOLEAN : OptimizeBegin(p, gc, dry_run)
    \/ OptimizeGC(p)

UserStep ==
    \/ \E path \in Paths, id \in FileContents, mode \in Modes : WriteFile(path, id, mode)
    \/ \E path \in Paths : DeleteFile(path)
    \/ Tick

\* One process at a time: commands run one after the other.
Next ==
    \/ RepoStep(1)
    \/ UserStep

Spec == Init /\ [][Next]_vars

\* Commands run within one second, and the running command can be killed at
\* any step.
NextCrash ==
    \/ RepoStep(1)
    \/ \E path \in Paths, id \in FileContents, mode \in Modes : WriteFile(path, id, mode)
    \/ Crash(1)

SpecCrash == Init /\ [][NextCrash]_vars

\* One process: add, killed at any step and inside store_chunks, and optimize.
NextKill ==
    \/ \E args \in AddArgs, all \in BOOLEAN : AddBegin(1, args, all, FALSE)
    \/ AddStoreChunks(1)
    \/ AddStoreFiles(1)
    \/ \E gc \in BOOLEAN, dry_run \in BOOLEAN : OptimizeBegin(1, gc, dry_run)
    \/ OptimizeGC(1)
    \/ \E path \in Paths, id \in {"s", "m"}, mode \in Modes : WriteFile(path, id, mode)
    \/ AddStoreChunksKilled(1)
    \/ Crash(1)

SpecKill == Init /\ [][NextKill]_vars

\* Strings a user can type for a commit: prefixes of digests, and strings with
\* the characters '_' and '%'.
Strings ==
    Targets \cup {<<UNDERSCORE>>, <<PERCENT>>, <<0, UNDERSCORE>>, <<PERCENT, 1>>}

\* Database::get_commit called with a string.
GetCommit(p, hash_prefix) ==
    /\ pc[p] = "idle"
    /\ IF get_commit(hash_prefix) = {}
       THEN ret' = [ret EXCEPT ![p] =
               [op |-> "get_commit", hash_prefix |-> hash_prefix, found |-> FALSE]]
       ELSE \E c \in get_commit(hash_prefix) :
               ret' = [ret EXCEPT ![p] =
                  [op |-> "get_commit", hash_prefix |-> hash_prefix,
                   found |-> TRUE, record |-> c]]
    /\ UNCHANGED <<worktree, files, commits, refs, chunks_dir, lock_holder, pc, loc,
                   stores, now, debug_assertions, is_repo>>

\* The history of a repository with nothing staged: commits with
\* allow_empty and checkouts, up to MaxGraphCommits commits, with kills.
MaxGraphCommits == 3

NextGraph ==
    \/ \E m \in Messages, allow_empty \in BOOLEAN :
          /\ Cardinality(commits) < MaxGraphCommits
          /\ CommitBegin(1, m, FALSE, allow_empty)
    \/ CommitRead(1)
    \/ CommitStoreCommit(1)
    \/ CommitStoreRef(1)
    \/ \E t \in Targets, force \in BOOLEAN : CheckoutBegin(1, t, force)
    \/ CheckoutRestore(1)
    \/ CheckoutStoreRef(1)
    \/ \E hash_prefix \in Strings : GetCommit(1, hash_prefix)
    \/ Tick
    \/ Crash(1)

SpecGraph == Init /\ [][NextGraph]_vars

\* A fresh directory: no .blaze.
InitFresh ==
    /\ worktree = [p \in Paths |-> NoFile]
    /\ files = EmptyMap
    /\ commits = {}
    /\ refs = EmptyMap
    /\ chunks_dir = EmptyMap
    /\ lock_holder = 0
    /\ pc = [p \in Procs |-> "idle"]
    /\ loc = [p \in Procs |-> NoLoc]
    /\ stores = [p \in Procs |-> NewStore]
    /\ ret = [p \in Procs |-> NoRet]
    /\ now = 1
    /\ debug_assertions = FALSE
    /\ is_repo = FALSE

BranchNames == {"HEAD", "dev"}

\* init, then the commands that write refs, staging, commits and chunks; the
\* other commands refuse to run outside a repository.
NextRefs ==
    \/ InitRepo(1)
    \/ \E name \in BranchNames : CreateBranch(1, name)
    \/ \E name \in BranchNames : DeleteBranch(1, name)
    \/ is_repo /\ \E all \in BOOLEAN : AddBegin(1, <<"a">>, all, FALSE)
    \/ is_repo /\ AddStoreChunks(1)
    \/ is_repo /\ AddStoreFiles(1)
    \/ \E m \in Messages, all \in BOOLEAN, allow_empty \in BOOLEAN :
          /\ is_repo
          /\ Cardinality(commits) < MaxCommits
          /\ CommitBegin(1, m, all, allow_empty)
    \/ is_repo /\ CommitRead(1)
    \/ is_repo /\ CommitStoreCommit(1)
    \/ is_repo /\ CommitStoreRef(1)
    \/ is_repo /\ \E t \in Targets, force \in BOOLEAN : CheckoutBegin(1, t, force)
    \/ is_repo /\ CheckoutRestore(1)
    \/ is_repo /\ CheckoutStoreRef(1)
    \/ \E path \in Paths, id \in AuditContents, mode \in Modes : WriteFile(path, id, mode)
    \/ Crash(1)

SpecRefs == InitFresh /\ [][NextRefs]_vars

\* Manifest maps: any of the tree's paths, each with no chunk or one chunk
\* and one of two modes.
TreeModes == {33188, 33261}

TreeManifests ==
    LET recs(path) ==
          {FileRecord(path, <<>>, 0, 1, mode) : mode \in TreeModes}
          \cup {FileRecord(path, <<compute_chunk_hash(Slice("s", 0, ContentLen("s")))>>,
                            ContentLen("s"), 1, mode) : mode \in TreeModes}
    IN UNION {{m \in [S -> UNION {recs(path) : path \in S}] :
                 \A path \in S : m[path].path = path} : S \in SUBSET TreePaths}

InitTree ==
    /\ worktree = [p \in Paths |-> NoFile]
    /\ files \in TreeManifests
    /\ commits = {}
    /\ refs = [n \in {"HEAD"} |-> None]
    /\ chunks_dir = EmptyMap
    /\ lock_holder = 0
    /\ pc = [p \in Procs |-> "idle"]
    /\ loc = [p \in Procs |-> NoLoc]
    /\ stores = [p \in Procs |-> NewStore]
    /\ ret = [p \in Procs |-> NoRet]
    /\ now = 1
    /\ debug_assertions = FALSE
    /\ is_repo = TRUE

\* The tree digest of the staging table, by either scheme.
TreeHash ==
    /\ ret' = [ret EXCEPT ![1] = [op |-> "create_tree_hash",
                                  digest |-> create_tree_hash(files)]]
    /\ UNCHANGED <<worktree, files, commits, refs, chunks_dir, lock_holder, pc, loc,
                   stores, now, debug_assertions, is_repo>>

TreeHashParallel ==
    /\ ret' = [ret EXCEPT ![1] = [op |-> "create_tree_hash_parallel",
                                  digest |-> create_tree_hash_parallel(files)]]
    /\ UNCHANGED <<worktree, files, commits, refs, chunks_dir, lock_holder, pc, loc,
                   stores, now, debug_assertions, is_repo>>

\* detect_changes between the staging table and another manifest map.
DetectChanges(new_records) ==
    /\ ret' = [ret EXCEPT ![1] = [op |-> "detect_changes",
                                  new_records |-> new_records,
                                  changes |-> detect_changes(files, new_records)]]
    /\ UNCHANGED <<worktree, files, commits, refs, chunks_dir, lock_holder, pc, loc,
                   stores, now, debug_assertions, is_repo>>

NextTree ==
    \/ TreeHash
    \/ TreeHashParallel
    \/ \E new_records \in TreeManifests : DetectChanges(new_records)

SpecTree == InitTree /\ [][NextTree]_vars

\* Two processes: add and optimize started from two shells.
ConcStep(p) ==
    \/ \E args \in AddArgs, all \in BOOLEAN, dry_run \in BOOLEAN :
          AddBegin(p, args, all, dry_run)
    \/ AddStoreChunks(p)
    \/ AddStoreFiles(p)
    \/ \E gc \in BOOLEAN, dry_run \in BOOLEAN : OptimizeBegin(p, gc, dry_run)
    \/ OptimizeGC(p)

NextConc ==
    \/ \E p \in Procs : ConcStep(p)
    \/ \E path \in Paths, id \in FileContents, mode \in Modes : WriteFile(path, id, mode)
    \/ \E path \in Paths : DeleteFile(path)

SpecConc == Init /\ [][NextConc]_vars

\* add on a working tree with a directory: the tree is any subset of the tree
\* paths, add is called with every kind of argument, files are deleted
\* between two calls, the write to the staging table can fail and the process
\* can be killed at any step.
TreeFiles == {NoFile, File(EmptyData, 1, 33188), File(Slice("s", 0, ContentLen("s")), 1, 33188)}

InitAdd ==
    /\ worktree \in [TreePaths -> TreeFiles]
    /\ files = EmptyMap
    /\ commits = {}
    /\ refs = [n \in {"HEAD"} |-> None]
    /\ chunks_dir = EmptyMap
    /\ lock_holder = 0
    /\ pc = [p \in Procs |-> "idle"]
    /\ loc = [p \in Procs |-> NoLoc]
    /\ stores = [p \in Procs |-> NewStore]
    /\ ret = [p \in Procs |-> NoRet]
    /\ now = 1
    /\ debug_assertions = FALSE
    /\ is_repo = TRUE

NextAdd ==
    \/ \E args \in TreeArgs, all \in BOOLEAN, dry_run \in BOOLEAN :
          AddBegin(1, args, all, dry_run)
    \/ AddStoreChunks(1)
    \/ AddStoreFiles(1)
    \/ AddStoreFilesFail(1)
    \/ \E path \in TreePaths : DeleteFile(path)
    \/ AddStoreChunksKilled(1)
    \/ Crash(1)

SpecAdd == InitAdd /\ [][NextAdd]_vars

\* Two processes: add, commit and checkout started from two shells.
LockStep(p) ==
    \/ \E all \in BOOLEAN : AddBegin(p, <<"a">>, all, FALSE)
    \/ AddStoreChunks(p)
    \/ AddStoreFiles(p)
    \/ \E m \in Messages, all \in BOOLEAN, allow_empty \in BOOLEAN :
          /\ Cardinality(commits) < MaxCommits
          /\ CommitBegin(p, m, all, allow_empty)
    \/ CommitRead(p)
    \/ CommitStoreCommit(p)
    \/ CommitStoreRef(p)
    \/ \E t \in Targets, force \in BOOLEAN : CheckoutBegin(p, t, force)
    \/ CheckoutRestore(p)
    \/ CheckoutStoreRef(p)

NextLock ==
    \/ \E p \in Procs : LockStep(p)
    \/ \E path \in Paths, id \in AuditContents, mode \in Modes : WriteFile(path, id, mode)

SpecLock == Init /\ [][NextLock]_vars

\* Commands run one after the other on small and empty files, chunk files get
\* lost, and status and verify look at the repository.
NextAudit ==
    \/ \E args \in AddArgs, all \in BOOLEAN, dry_run \in BOOLEAN :
          AddBegin(1, args, all, dry_run)
    \/ AddStoreChunks(1)
    \/ AddStoreFiles(1)
    \/ \E m \in Messages, all \in BOOLEAN, allow_empty \in BOOLEAN :
          /\ Cardinality(commits) < MaxCommits
          /\ CommitBegin(1, m, all, allow_empty)
    \/ CommitRead(1)
    \/ CommitStoreCommit(1)
    \/ CommitStoreRef(1)
    \/ \E t \in Targets, force \in BOOLEAN : CheckoutBegin(1, t, force)
    \/ CheckoutRestore(1)
    \/ CheckoutStoreRef(1)
    \/ Status(1)
    \/ \E fix \in BOOLEAN, chunks \in BOOLEAN : Verify(1, fix, chunks)
    \/ \E path \in Paths, id \in AuditContents, mode \in Modes : WriteFile(path, id, mode)
    \/ \E h \in ChunkHashes : RemoveChunkFile(get_chunk_path(h))
    \/ \E h \in ChunkHashes, rec \in AlteredRecords : AlterChunkFile(get_chunk_path(h), rec)

SpecAudit == Init /\ [][NextAudit]_vars

(***************************************************************************)
(* The chunk store on its own: one long-lived ChunkStore, either build     *)
(***************************************************************************)
MaxBatch == 2

StoreData == {EmptyData} \cup {Slice(id, 0, ContentLen(id)) : id \in ContentIds}
StoreChunks == {FileChunk(d) : d \in StoreData}
Batches == UNION {[1..n -> StoreChunks] : n \in 1..MaxBatch}

\* The data with the given digest.
DataOf(hash) == CHOOSE d \in ChunkUniverse : compute_chunk_hash(d) = hash

InitStore ==
    /\ worktree = [p \in Paths |-> NoFile]
    /\ files = EmptyMap
    /\ commits = {}
    /\ refs = [n \in {"HEAD"} |-> None]
    /\ chunks_dir = EmptyMap
    /\ lock_holder = 0
    /\ pc = [p \in Procs |-> "idle"]
    /\ loc = [p \in Procs |-> NoLoc]
    /\ stores = [p \in Procs |-> NewStore]
    /\ ret = [p \in Procs |-> NoRet]
    /\ now = 1
    /\ debug_assertions \in BOOLEAN
    /\ is_repo = TRUE

StoreReturn(op, arg, res, cached) ==
    ret' = [ret EXCEPT ![1] = [op |-> op, arg |-> arg, res |-> res, cached |-> cached]]

SStoreChunk(chunk) ==
    /\ \E o \in store_chunk(stores[1], chunks_dir, chunk) :
         /\ stores' = [stores EXCEPT ![1] = o.st]
         /\ chunks_dir' = o.disk
         /\ StoreReturn("store_chunk", <<chunk.hash>>, o.res, FALSE)
    /\ UNCHANGED <<worktree, files, commits, refs, lock_holder, pc, loc, now,
                   debug_assertions, is_repo>>

SStoreChunks(batch) ==
    /\ \E o \in store_chunks(stores[1], chunks_dir, batch) :
         /\ stores' = [stores EXCEPT ![1] = o.st]
         /\ chunks_dir' = o.disk
         /\ StoreReturn("store_chunks", HashesOf(batch), o.res, FALSE)
    /\ UNCHANGED <<worktree, files, commits, refs, lock_holder, pc, loc, now,
                   debug_assertions, is_repo>>

SLoadChunk(hash) ==
    /\ \E o \in load_chunk(stores[1], chunks_dir, hash) :
         /\ stores' = [stores EXCEPT ![1] = o.st]
         /\ StoreReturn("load_chunk", <<hash>>, o.res,
                        hash \in DOMAIN stores[1].chunk_cache)
    /\ UNCHANGED <<worktree, files, commits, refs, chunks_dir, lock_holder, pc, loc,
                   now, debug_assertions, is_repo>>

SClearCache ==
    /\ stores' = [stores EXCEPT ![1] = clear_cache(stores[1])]
    /\ StoreReturn("clear_cache", <<>>, Ok(0), FALSE)
    /\ UNCHANGED <<worktree, files, commits, refs, chunks_dir, lock_holder, pc, loc,
                   now, debug_assertions, is_repo>>

SChunkExists(hash) ==
    /\ LET ce == chunk_exists(stores[1], chunks_dir, hash) IN
         /\ stores' = [stores EXCEPT ![1] = ce.st]
         /\ ret' = [ret EXCEPT ![1] =
                [op |-> "chunk_exists", hash |-> hash, exists |-> ce.exists]]
    /\ UNCHANGED <<worktree, files, commits, refs, chunks_dir, lock_holder, pc, loc,
                   now, debug_assertions, is_repo>>

SGarbageCollect(active_hashes) ==
    /\ LET o == garbage_collect(stores[1], chunks_dir, active_hashes) IN
         /\ stores' = [stores EXCEPT ![1] = o.st]
         /\ chunks_dir' = o.disk
         /\ ret' = [ret EXCEPT ![1] =
                [op |-> "garbage_collect", active_hashes |-> active_hashes,
                 res |-> o.res]]
    /\ UNCHANGED <<worktree, files, commits, refs, lock_holder, pc, loc, now,
                   debug_assertions, is_repo>>

NextStore ==
    \/ \E c \in StoreChunks : SStoreChunk(c)
    \/ \E b \in Batches : SStoreChunks(b)
    \/ \E c \in StoreChunks : SLoadChunk(c.hash)
    \/ SClearCache

SpecStore == InitStore /\ [][NextStore]_vars

\* The chunks of the collection test: one to keep, one to remove.
GCChunks == {FileChunk(EmptyData), FileChunk(Slice("s", 0, ContentLen("s")))}
GCHashes == {c.hash : c \in GCChunks}

\* garbage_collect takes entries out of the byte cache and leaves the cache's
\* byte count as it was, so the count grows with every store and collection:
\* collections run while the count is below MaxCacheBytes.
MaxCacheBytes == 200

\* The chunk store with collections and existence queries.
NextGC ==
    \/ \E c \in GCChunks : SStoreChunk(c)
    \/ \E b \in UNION {[1..n -> GCChunks] : n \in 1..MaxBatch} : SStoreChunks(b)
    \/ \E h \in GCHashes : SLoadChunk(h)
    \/ SClearCache
    \/ \E h \in GCHashes : SChunkExists(h)
    \/ \E A \in SUBSET GCHashes :
         /\ stores[1].current_cache_size < MaxCacheBytes
         /\ SGarbageCollect(A)

SpecGC == InitStore /\ [][NextGC]_vars

\* The chunk files that no longer decode to the bytes they are named after.
AlteredPaths ==
    {path \in DOMAIN chunks_dir :
        ~load_chunk_uncached(chunks_dir, full_hash(path), TRUE, LoadFuel(chunks_dir)).ok}

\* The chunk store with chunk files overwritten behind its back, at most
\* MaxMissing of them at a time.
NextTamper ==
    \/ NextStore
    \/ \E c \in StoreChunks, rec \in AlteredRecords :
         /\ Cardinality(AlteredPaths) < MaxMissing
         /\ AlterChunkFile(get_chunk_path(c.hash), rec)

SpecTamper == InitStore /\ [][NextTamper]_vars

(***************************************************************************)
(* Properties                                                              *)
(***************************************************************************)
ManifestDigests(table) == UNION {SeqRange(table[p].chunks) : p \in DOMAIN table}

\* The digests named by the staging manifests and by every stored commit.
ReferencedDigests ==
    ManifestDigests(files) \cup UNION {ManifestDigests(c.files) : c \in commits}

HasChunkFile(h) == get_chunk_path(h) \in DOMAIN chunks_dir

\* The bytes a manifest stands for.
RecordData(r) == Concat([i \in 1..Len(r.chunks) |-> DataOf(r.chunks[i])])

\* The bytes a chunk file encodes.
RecordContent(rec) == IF rec.tag = 3 THEN rec.body.body.new ELSE rec.body

\* C1: with the commands run one at a time, every chunk digest named by a
\* staging manifest or by a manifest of a stored commit has its chunk file.
C1_ActiveChunksStored == \A h \in ReferencedDigests : HasChunkFile(h)

\* A collection has removed a chunk file while staging and a commit name chunks.
C1_Witness ==
    /\ pc[1] = "idle"
    /\ ret[1].op = "optimize"
    /\ ret[1].res.ok
    /\ ret[1].res.val > 0
    /\ commits # {}
    /\ ManifestDigests(files) # {}

\* C2: commit is atomic: in every state, between its steps and after a kill,
\* the record of the commit being made is stored exactly when HEAD is its
\* digest.
C2_CommitAtomic ==
    /\ pc[1] = "commit_ref" =>
         (loc[1].commit_record \in commits <=> refs["HEAD"] = loc[1].commit_record.hash)
    /\ (pc[1] = "idle" /\ ret[1].op = "commit" /\ ret[1].res = Err("crashed")
                       /\ ret[1].at = "commit_ref") =>
         ((\E c \in commits : c.hash = ret[1].hash) <=> refs["HEAD"] = ret[1].hash)

\* C3: a process that is between the writes of a mutating operation holds the
\* exclusive repository lock.
C3_MutationHoldsLock ==
    \A p \in Procs :
        (\/ pc[p] \in {"add_chunks", "add_files"}
         \/ pc[p] = "optimize_gc" /\ ~loc[p].dry_run)
        => lock_holder = p

\* C4: add and optimize with gc run in two processes, in any interleaving:
\* once both have returned, every chunk digest of the staging manifests has
\* its chunk file.
C4_StagedChunksSurviveGc ==
    Idle => \A h \in ManifestDigests(files) : HasChunkFile(h)

\* C5: a chunk that has been stored is loaded back with its own bytes, from
\* the cache and from disk.
C5_LoadReturnsStored ==
    (ret[1].op = "load_chunk" /\ HasChunkFile(ret[1].arg[1]))
    => ret[1].res = Ok(DataOf(ret[1].arg[1]))

\* C6: a forced checkout whose target is the digest of a stored commit or a
\* prefix of it succeeds, leaves every path of that commit's manifests with the
\* committed bytes and sets HEAD to that commit's digest.
C6_CheckoutStep ==
    /\ (pc[1] = "checkout_restore" /\ loc[1].force) => pc'[1] = "checkout_ref"
    /\ (pc[1] = "checkout_ref" /\ loc[1].force /\ pc'[1] = "idle") =>
         \A c \in commits :
            IsPrefix(loc[1].target, c.hash) =>
               /\ refs'["HEAD"] = c.hash
               /\ \A path \in DOMAIN c.files :
                     /\ worktree'[path].exists
                     /\ worktree'[path].data = RecordData(c.files[path])

C6_CheckoutRestores == [][C6_CheckoutStep]_vars

\* C7: every chunk file sits at the path of the digest of the bytes it
\* encodes, so there is one chunk file for each distinct digest stored,
\* however often the digest was stored.
C7_OneFilePerDigest ==
    \A path \in DOMAIN chunks_dir :
        path = get_chunk_path(compute_chunk_hash(RecordContent(chunks_dir[path])))

\* A batch of two chunks with one digest has left one chunk file.
C7_Witness ==
    /\ ret[1].op = "store_chunks"
    /\ Len(ret[1].arg) = 2
    /\ ret[1].arg[1] = ret[1].arg[2]
    /\ Cardinality(DOMAIN chunks_dir) = 1

\* C8: in every state, between the steps of commit and checkout and after a
\* kill, HEAD has no digest or has the digest of a stored commit.
C8_HeadIsStoredCommit ==
    refs["HEAD"] = None \/ \E c \in commits : c.hash = refs["HEAD"]

\* A commit is between its two writes while HEAD names an earlier commit.
C8_Witness ==
    /\ pc[1] = "commit_ref"
    /\ refs["HEAD"] # None
    /\ refs["HEAD"] # loc[1].commit_record.hash

\* C9: the record a commit stores has the staging manifests as its manifest
\* map and the HEAD it read as its parent, and at most one stored commit has
\* no parent.
C9_ParentIsHead ==
    /\ pc[1] = "commit_ref" =>
         /\ loc[1].commit_record.files = files
         /\ (~loc[1].all => loc[1].commit_record.files = loc[1].files_at_call)
         /\ loc[1].commit_record.parent = loc[1].head_at_call
    /\ Cardinality({c \in commits : c.parent = None}) <= 1

\* C10: a commit on an empty staging area without allow_empty returns a
\* Repository error and changes neither the commits nor HEAD; with allow_empty
\* it goes on with a record whose manifest map is empty, and the commit that
\* returns has stored its record and made it HEAD.
C10_Step ==
    /\ (pc[1] = "commit_read" /\ files = EmptyMap /\ ~loc[1].allow_empty) =>
         /\ pc'[1] = "idle"
         /\ ret'[1] = [op |-> "commit", res |-> Err("Repository")]
         /\ commits' = commits
         /\ refs' = refs
    /\ (pc[1] = "commit_read" /\ files = EmptyMap /\ loc[1].allow_empty) =>
         /\ pc'[1] = "commit_store"
         /\ loc'[1].commit_record.files = EmptyMap
    /\ (pc[1] = "commit_ref" /\ pc'[1] = "idle") =>
         /\ loc[1].commit_record \in commits'
         /\ refs'["HEAD"] = loc[1].commit_record.hash
         /\ ret'[1] = [op |-> "commit", res |-> Ok(loc[1].commit_record.hash)]

C11_Step ==
    /\ pc[1] \in {"commit_read", "commit_store", "commit_ref"} => files' = files
    /\ (pc[1] = "commit_ref" /\ pc'[1] = "idle") =>
         /\ files' = loc[1].staged_files
         /\ files' = loc[1].commit_record.files
         /\ (~loc[1].all => files' = loc[1].files_at_call)

NamedFiles(arg, wt) ==
    IF arg \in DOMAIN wt /\ wt[arg].exists
    THEN {arg}
    ELSE IF \E p \in DOMAIN wt : wt[p].exists /\ IsPrefix(Chars(arg) \o <<"/">>, Chars(p))
    THEN {p \in DOMAIN wt : wt[p].exists /\ IsPrefix(Chars(arg) \o <<"/">>, Chars(p))}
    ELSE {p \in DOMAIN wt :
            /\ wt[p].exists
            /\ \E i \in 1..Len(Chars(p)) : \E j \in i..Len(Chars(p)) :
                  SubSeq(Chars(p), i, j) = Chars(arg)}

NamedBy(args, wt) == UNION {NamedFiles(args[i], wt) : i \in 1..Len(args)}

RECURSIVE NamedCount(_, _)
NamedCount(args, wt) ==
    IF Len(args) = 0 THEN 0
    ELSE Cardinality(NamedFiles(Head(args), wt)) + NamedCount(Tail(args), wt)

\* C12: add with a non-empty path list, all=false and dry_run=false stages
\* the files its arguments name (the file, the files under the directory, the
\* files whose path contains the argument) with the bytes they have, and
\* returns how many it staged, counted argument by argument.
C12_Step ==
    \A args \in TreeArgs \ {<<>>} :
        /\ (ret'[1].op = "add" /\ AddBegin(1, args, FALSE, FALSE) /\ pc'[1] = "idle") =>
              NamedBy(args, worktree) = {}
        /\ (/\ pc[1] = "add_files"
            /\ loc[1].op = "add"
            /\ loc[1].args = args
            /\ ~loc[1].all) =>
              /\ DOMAIN files' = DOMAIN files \cup NamedBy(args, worktree)
              /\ \A p \in NamedBy(args, worktree) :
                    RecordData(files'[p]) = worktree[p].data
              /\ ret'[1] = [op |-> "add", res |-> Ok(NamedCount(args, worktree))]

C12_AddStagesNamedFiles == [][C12_Step]_vars

\* C13: an add that returns an error leaves staging exactly as it was when
\* the add was called, whether the error comes before the writes (a file that
\* cannot be read) or from the write of the staging rows.
C13_Step ==
    /\ (pc[1] = "idle" /\ pc'[1] = "idle" /\ ret'[1].op = "add" /\ ~ret'[1].res.ok) =>
          files' = files
    /\ (/\ pc[1] \in {"add_chunks", "add_files"}
        /\ loc[1].op = "add"
        /\ pc'[1] = "idle"
        /\ ~ret'[1].res.ok) =>
          files' = loc[1].files_at_call

C13_FailedAddKeepsStaging == [][C13_Step]_vars

\* An add of two files has written its chunks, has failed on the write of the
\* staging rows, and staging holds neither file.
C13_Witness ==
    /\ pc[1] = "idle"
    /\ ret[1] = [op |-> "add", res |-> Err("Generic")]
    /\ chunks_dir # EmptyMap
    /\ files = EmptyMap

\* C14: at every point of an add, and after a kill at any point of it, every
\* chunk digest of a staging manifest has, at its final path, a chunk file
\* that encodes the bytes with that digest.
C14_StagedChunksComplete ==
    \A h \in ManifestDigests(files) :
        /\ HasChunkFile(h)
        /\ compute_chunk_hash(RecordContent(chunks_dir[get_chunk_path(h)])) = h

\* An add was killed inside store_chunks and left a file at a .tmp path,
\* while staging holds manifests.
C14_Witness ==
    /\ pc[1] = "idle"
    /\ ret[1].op = "add"
    /\ ret[1].res = Err("crashed")
    /\ ret[1].at = "store_chunks"
    /\ \E path \in DOMAIN chunks_dir : chunks_dir[path] = Truncated
    /\ files # EmptyMap

\* C15: add with dry_run=true changes neither staging nor the chunk store and
\* returns the count that the same call with dry_run=false returns on the
\* same working tree and staging.
C15_Step ==
    \A args \in TreeArgs, all \in BOOLEAN :
        (ret'[1].op = "add" /\ AddBegin(1, args, all, TRUE)) =>
            /\ files' = files
            /\ chunks_dir' = chunks_dir
            /\ pc'[1] = "idle"
            /\ AddPlan(args, all, FALSE, files, worktree).err = NoErr =>
                  ret'[1] = [op |-> "add",
                             res |-> Ok(AddPlan(args, all, FALSE, files, worktree).count)]

C15_DryRunCounts == [][C15_Step]_vars

\* Every file of the working tree is staged, and every staged file is in the
\* working tree with the bytes, the size and the mode that were staged.
TreeAsAdded ==
    /\ ExistingPaths(worktree) = DOMAIN files
    /\ \A p \in DOMAIN files :
          /\ worktree[p].data = RecordData(files[p])
          /\ worktree[p].data.len = files[p].size
          /\ worktree[p].mode = files[p].permissions

\* C16: checkout without force returns an error, writes no file and leaves
\* HEAD alone when the scan of the working tree differs from staging; when
\* every file is as it was added and the target names a stored commit, it goes
\* on to restore the files.
C16_Step ==
    \A t \in Targets :
        (ret'[1].op = "checkout" /\ CheckoutBegin(1, t, FALSE)) =>
            /\ scan_working_directory(worktree) # files =>
                  /\ pc'[1] = "idle"
                  /\ ~ret'[1].res.ok
                  /\ worktree' = worktree
                  /\ refs' = refs
            /\ (TreeAsAdded /\ get_commit(t) # {}) => pc'[1] = "checkout_restore"

C16_CheckoutUnforced == [][C16_Step]_vars

\* Every file of the working tree is added and committed and none has changed
\* since: HEAD is a stored commit whose manifests are the staging manifests.
CleanRepository ==
    /\ TreeAsAdded
    /\ files # EmptyMap
    /\ \E c \in commits : c.hash = refs["HEAD"] /\ c.files = files

\* C17: on a clean repository status computes an empty staged change set and
\* an empty working change set, whichever way the files were added and
\* whatever their size.
C17_Step ==
    (ret'[1].op = "status" /\ Status(1) /\ CleanRepository) =>
        /\ ret'[1].staged_changes = {}
        /\ ret'[1].working_changes = {}

C17_CleanStatus == [][C17_Step]_vars

\* The files of the commit being checked out that have a chunk without a
\* chunk file.
FilesMissingChunks ==
    {path \in DOMAIN loc[1].commit.files :
        \E h \in SeqRange(loc[1].commit.files[path].chunks) : ~HasChunkFile(h)}

\* C18: when a chunk of a file of the target commit has no chunk file,
\* checkout returns an error, does not write that file and leaves HEAD as it
\* was.
C18_Step ==
    (pc[1] = "checkout_restore" /\ FilesMissingChunks # {}) =>
        /\ pc'[1] = "idle"
        /\ ret'[1].op = "checkout"
        /\ ~ret'[1].res.ok
        /\ refs' = refs
        /\ \A path \in FilesMissingChunks : worktree'[path] = worktree[path]

C18_MissingChunkStopsCheckout == [][C18_Step]_vars

\* A checkout has failed on a commit one of whose chunks has no chunk file.
C18_Witness ==
    /\ pc[1] = "idle"
    /\ ret[1] = [op |-> "checkout", res |-> Err("Generic")]
    /\ \E c \in commits : \E h \in ManifestDigests(c.files) : ~HasChunkFile(h)

\* C20: verify returns at least 1 whenever a chunk digest of a staging
\* manifest or of a manifest of any stored commit has no chunk file.
C20_Step ==
    \A fix \in BOOLEAN, chunks \in BOOLEAN :
        (/\ ret'[1].op = "verify"
         /\ Verify(1, fix, chunks)
         /\ \E h \in ReferencedDigests : ~HasChunkFile(h)) =>
            ret'[1].res.val >= 1

C20_VerifyCountsMissing == [][C20_Step]_vars

\* C19: while another process holds the repository lock, a commit or a
\* checkout returns at once with an error of kind Lock and leaves staging,
\* commits and refs as they are.
C19_Step ==
    \A p \in Procs :
        (/\ pc[p] = "idle"
         /\ lock_holder \notin {0, p}
         /\ ret'[p].op \in {"commit", "checkout"}
         /\ ret'[p] # ret[p]) =>
            /\ pc'[p] = "idle"
            /\ ret'[p].res = Err("Lock")
            /\ files' = files
            /\ commits' = commits
            /\ refs' = refs

C19_LockedOut == [][C19_Step]_vars

\* C21: verify with chunks=true counts an issue for every chunk digest of a
\* staging manifest or of a stored commit whose chunk file is there but does
\* not decode to bytes with that digest.
C21_Step ==
    \A fix \in BOOLEAN :
        (/\ ret'[1].op = "verify"
         /\ Verify(1, fix, TRUE)
         /\ \E h \in ReferencedDigests :
               /\ HasChunkFile(h)
               /\ compute_chunk_hash(RecordContent(chunks_dir[get_chunk_path(h)])) # h) =>
            ret'[1].res.val >= 1

C21_VerifyCountsCorrupt == [][C21_Step]_vars

\* C22: a load_chunk(h) that reads the chunk file (h is not in the byte
\* cache, as after clear_cache) returns an error when the file's record does
\* not decode to bytes with digest h, and no load_chunk returns bytes with
\* another digest than the one asked for.
C22_Step ==
    \A c \in StoreChunks :
        (/\ ret'[1].op = "load_chunk"
         /\ SLoadChunk(c.hash)) =>
            /\ (/\ c.hash \notin DOMAIN stores[1].chunk_cache
                /\ get_chunk_path(c.hash) \in DOMAIN chunks_dir
                /\ compute_chunk_hash(RecordContent(chunks_dir[get_chunk_path(c.hash)]))
                      # c.hash) => ~ret'[1].res.ok
            /\ ret'[1].res.ok => compute_chunk_hash(ret'[1].res.val) = c.hash

C22_AlteredChunkRefused == [][C22_Step]_vars

\* C23: garbage_collect(A) removes the chunk files whose digest is not in A
\* and no other, leaves the kept files as they were, and returns the number
\* of files removed; afterwards a removed digest is in neither the byte cache
\* nor the known-exists set, is in the known-missing set and chunk_exists is
\* false for it, and chunk_exists is true for every digest that kept its file.
C23_Step ==
    \A A \in SUBSET GCHashes :
        (/\ ret'[1].op = "garbage_collect"
         /\ SGarbageCollect(A)) =>
            LET removed == {p \in DOMAIN chunks_dir : full_hash(p) \notin A}
                kept == DOMAIN chunks_dir \ removed
            IN /\ DOMAIN chunks_dir' = kept
               /\ \A p \in kept : chunks_dir'[p] = chunks_dir[p]
               /\ ret'[1].res = Ok(Cardinality(removed))
               /\ \A p \in removed :
                     /\ full_hash(p) \notin DOMAIN stores'[1].chunk_cache
                     /\ full_hash(p) \notin stores'[1].existence_cache
                     /\ full_hash(p) \in stores'[1].negative_cache
                     /\ ~chunk_exists(stores'[1], chunks_dir', full_hash(p)).exists
               /\ \A p \in kept :
                     chunk_exists(stores'[1], chunks_dir', full_hash(p)).exists

TmpFiles(disk) ==
    {path \in DOMAIN disk :
        \E h \in ChunkHashes : path = with_extension_tmp(get_chunk_path(h))}

\* Every file at a path that is not a .tmp path is the whole record of the
\* bytes the path is named after.
OnlyCompleteChunks ==
    \A path \in DOMAIN chunks_dir \ TmpFiles(chunks_dir) :
        /\ chunks_dir[path].tag \in 0..3
        /\ path = get_chunk_path(compute_chunk_hash(RecordContent(chunks_dir[path])))

\* C24 as stated: whenever add is killed, also inside store_chunks, the
\* chunks directory holds whole chunk files at their final paths and .tmp
\* files only, and every optimize run that returns leaves no .tmp file.
C24_AnyOptimizeStep ==
    (/\ ret'[1].op = "optimize"
     /\ pc[1] \in {"idle", "optimize_gc"}
     /\ pc'[1] = "idle"
     /\ ret'[1].res.ok) => TmpFiles(chunks_dir') = {}

C24_AnyOptimizeCleans == []OnlyCompleteChunks /\ [][C24_AnyOptimizeStep]_vars

\* C24, amended: whenever add is killed, also inside store_chunks, the chunks
\* directory holds whole chunk files at their final paths and .tmp files
\* only, and an optimize run with gc and without dry_run leaves no .tmp file.
C24_Step ==
    (/\ pc[1] = "optimize_gc"
     /\ ~loc[1].dry_run
     /\ pc'[1] = "idle"
     /\ ret'[1].res.ok) => TmpFiles(chunks_dir') = {}

C24_KillLeavesTmpOnly == []OnlyCompleteChunks /\ [][C24_Step]_vars

\* A collection is about to run over a directory in which a kill has left a
\* .tmp file.
C24_Witness ==
    /\ pc[1] = "optimize_gc"
    /\ ~loc[1].dry_run
    /\ TmpFiles(chunks_dir) # {}

\* Following parent links from the digest h ends at a commit without parent
\* within fuel steps.
RECURSIVE ReachesRoot(_, _)
ReachesRoot(h, fuel) ==
    \/ h = None
    \/ /\ fuel > 0
       /\ \E c \in commits : c.hash = h /\ ReachesRoot(c.parent, fuel - 1)

CommitGraphRooted ==
    \A c \in commits : ReachesRoot(c.hash, Cardinality(commits))

\* C25: the commit graph is acyclic in every state: a commit, when it is
\* stored, has no parent or has a commit stored before it as parent, stored
\* commits stay as they are, and the parent links from every stored commit
\* end at a commit without parent; also when commits follow the checkout of
\* an older commit.
C25_Step ==
    /\ commits \subseteq commits'
    /\ \A c \in commits' \ commits :
         c.parent = None \/ \E d \in commits : d.hash = c.parent

C25_CommitGraphAcyclic == []CommitGraphRooted /\ [][C25_Step]_vars

\* A commit made after the checkout of an older commit: the older commit is
\* the parent of two commits, the newer of which is HEAD.
C25_Witness ==
    /\ ret[1].op = "commit"
    /\ ret[1].res.ok
    /\ \E c, d \in commits :
         /\ c.hash # d.hash
         /\ c.parent # None
         /\ c.parent = d.parent
         /\ refs["HEAD"] = c.hash

\* C26: once init has made the repository, the ref HEAD exists in every
\* state, and delete_branch("HEAD") returns a Repository error and leaves
\* every ref as it was.
C26_Step ==
    (/\ is_repo
     /\ ret'[1].op = "delete_branch"
     /\ DeleteBranch(1, "HEAD")) =>
        /\ ret'[1].res = Err("Repository")
        /\ refs' = refs

C27_Step ==
    (/\ ret'[1].op = "init"
     /\ InitRepo(1)) =>
        /\ ret'[1].res.ok
        /\ is_repo =>
              /\ commits' = commits
              /\ files' = files
              /\ refs' = refs
              /\ chunks_dir' = chunks_dir
        /\ ~is_repo =>
              /\ "HEAD" \in DOMAIN refs'
              /\ refs'["HEAD"] = None
              /\ commits' = {}
              /\ files' = EmptyMap

C27_InitIdempotent == [][C27_Step]_vars

\* init has run in a repository whose HEAD names a commit and whose staging
\* table has an entry.
C27_Witness ==
    /\ ret[1].op = "init"
    /\ refs["HEAD"] # None
    /\ commits # {}
    /\ files # EmptyMap
    /\ chunks_dir # EmptyMap

\* C28: the tree digest of a manifest map m is the tree digest of a manifest
\* map m' exactly when m and m' have the same paths and, for every path,
\* manifests equal in every field.
C28_TreeDigestIdentifiesMap ==
    ret[1].op = "create_tree_hash" =>
        \A m \in TreeManifests :
            (create_tree_hash(m) = ret[1].digest) <=> (m = files)

\* C29: create_tree_hash_parallel returns for every manifest map the digest
\* create_tree_hash returns for it.
C29_ParallelEqualsSequential ==
    ret[1].op = "create_tree_hash_parallel" =>
        ret[1].digest = create_tree_hash(files)

\* C30: get_commit(p) returns, for every string p, one stored commit whose
\* digest begins with p and whose timestamp is the largest among the stored
\* commits whose digest begins with p, and returns none when no stored
\* digest begins with p.
C30_Step ==
    \A p \in Strings :
        (/\ ret'[1].op = "get_commit"
         /\ GetCommit(1, p)) =>
            LET begins == {c \in commits : IsPrefix(p, c.hash)} IN
            /\ ret'[1].found <=> begins # {}
            /\ ret'[1].found =>
                  /\ ret'[1].record \in begins
                  /\ \A c \in begins : c.timestamp <= ret'[1].record.timestamp

C30_GetCommitByPrefix == [][C30_Step]_vars

\* C31: the chunk list of every staged manifest is the split of the file's
\* bytes at CHUNK_SIZE: every chunk but the last has CHUNK_SIZE bytes, the
\* last has 1 to CHUNK_SIZE bytes, and an empty file has one empty chunk.
C31_FixedSizeSplit ==
    \A path \in DOMAIN files :
        LET ch == files[path].chunks
            n == Len(ch)
        IN /\ n >= 1
           /\ \A i \in 1..n :
                 IF i < n
                 THEN DataOf(ch[i]).len = CHUNK_SIZE
                 ELSE \/ DataOf(ch[i]).len \in 1..CHUNK_SIZE
                      \/ n = 1 /\ files[path].size = 0 /\ DataOf(ch[i]).len = 0

\* Two manifests differ in some field.
FieldsDiffer(a, b) ==
    \/ a.path # b.path
    \/ a.chunks # b.chunks
    \/ a.size # b.size
    \/ a.mtime # b.mtime
    \/ a.permissions # b.permissions
    \/ a.is_executable # b.is_executable

\* C32: detect_changes(old, new) has one Added entry for each path of new
\* that old lacks, one Deleted entry for each path of old that new lacks, one
\* Modified entry for each path of both whose manifests differ in a field,
\* and nothing else; it is empty when old is new.
C32_DetectChangesExact ==
    ret[1].op = "detect_changes" =>
        LET old == files
            new == ret[1].new_records
            changes == ret[1].changes
            kinds(p) == {c.change_type : c \in {d \in changes : d.path = p}}
        IN /\ \A c \in changes :
                 /\ c.path \in DOMAIN old \cup DOMAIN new
                 /\ c.change_type \in {"Added", "Deleted", "Modified"}
           /\ \A p \in DOMAIN new \ DOMAIN old : kinds(p) = {"Added"}
           /\ \A p \in DOMAIN old \ DOMAIN new : kinds(p) = {"Deleted"}
           /\ \A p \in DOMAIN old \cap DOMAIN new :
                 kinds(p) = IF FieldsDiffer(old[p], new[p]) THEN {"Modified"} ELSE {}
           /\ old = new => changes = {}

\* A comparison that found an added, a deleted and a modified path, the
\* modified one with its chunk list unchanged.
C32_Witness ==
    /\ ret[1].op = "detect_changes"
    /\ {c.change_type : c \in ret[1].changes} = {"Added", "Deleted", "Modified"}
    /\ \E c \in ret[1].changes :
         /\ c.change_type = "Modified"
         /\ files[c.path].chunks = ret[1].new_records[c.path].chunks

(***************************************************************************)
(* The byte cache under load: chunks of a quarter of the budget.           *)
(***************************************************************************)
SLoadChunks(hashes) ==
    /\ \E o \in load_chunks(stores[1], chunks_dir, hashes) :
         /\ stores' = [stores EXCEPT ![1] = o.st]
         /\ ret' = [ret EXCEPT ![1] =
                [op |-> "load_chunks", hashes |-> hashes, ok |-> o.res.ok]]
    /\ UNCHANGED <<worktree, files, commits, refs, chunks_dir, lock_holder, pc, loc,
                   now, debug_assertions, is_repo>>

\* Five chunks the cache admits, four of which fill it, and one it refuses.
CacheChunks == {FileChunk(d) : d \in QuarterData}
BigChunk == FileChunk(Slice("x", 0, ContentLen("x")))
CacheHashes == {c.hash : c \in CacheChunks}

\* garbage_collect leaves the cache's byte count as it was, so the count has
\* no upper limit: collections run while it is below MaxCountedBytes.
MaxCountedBytes == 83886080

\* The chunks that the operations of the cache test name; the other three
\* quarter-budget chunks are stored before it starts.
BatchChunks == {FileChunk(Slice("x", k * 1048576, 16777216)) : k \in 0..1}
BatchHashes == {c.hash : c \in BatchChunks}
PreloadSeq == [k \in 1..3 |-> FileChunk(Slice("x", (k + 1) * 1048576, 16777216))]

\* The outcome of store_chunk on each chunk of seq in turn, from a new store
\* and an empty chunks directory.
RECURSIVE StoreEach(_, _)
StoreEach(seq, n) ==
    IF n = 0
    THEN {[st |-> NewStore, disk |-> EmptyMap, res |-> Ok(None)]}
    ELSE UNION {store_chunk(o.st, o.disk, seq[n]) : o \in StoreEach(seq, n - 1)}

InitCache ==
    /\ worktree = [p \in Paths |-> NoFile]
    /\ files = EmptyMap
    /\ commits = {}
    /\ refs = [n \in {"HEAD"} |-> None]
    /\ lock_holder = 0
    /\ pc = [p \in Procs |-> "idle"]
    /\ loc = [p \in Procs |-> NoLoc]
    /\ now = 1
    /\ debug_assertions \in BOOLEAN
    /\ is_repo = TRUE
    /\ \E o \in StoreEach(PreloadSeq, Len(PreloadSeq)) :
         /\ chunks_dir = o.disk
         /\ stores = [p \in Procs |-> IF p = 1 THEN o.st ELSE NewStore]
         /\ ret = [p \in Procs |->
                     IF p = 1
                     THEN [op |-> "store_chunk", arg |-> <<PreloadSeq[3].hash>>,
                           res |-> o.res, cached |-> FALSE]
                     ELSE NoRet]

NextCache ==
    \/ \E c \in BatchChunks \cup {BigChunk} : SStoreChunk(c)
    \/ \E b \in UNION {[1..n -> BatchChunks] : n \in 1..MaxBatch} : SStoreChunks(b)
    \/ \E h \in BatchHashes : SLoadChunk(h)
    \/ \E hs \in UNION {[1..n -> BatchHashes] : n \in 1..MaxBatch} : SLoadChunks(hs)
    \/ SClearCache
    \/ \E A \in {{}, CacheHashes \ BatchHashes} :
         /\ stores[1].current_cache_size < MaxCountedBytes
         /\ SGarbageCollect(A)

SpecCache == InitCache /\ [][NextCache]_vars

\* The number of bytes the byte cache holds.
RECURSIVE CachedBytes(_)
CachedBytes(cache) ==
    IF DOMAIN cache = {} THEN 0
    ELSE LET h == CHOOSE h \in DOMAIN cache : TRUE
         IN cache[h].len + CachedBytes(MapDel(cache, h))

\* C33: the bytes held in the chunk cache never exceed max_cache_size, and no
\* cached entry is larger than a quarter of max_cache_size.
C33_CacheWithinBudget ==
    /\ CachedBytes(stores[1].chunk_cache) <= max_cache_size
    /\ \A h \in DOMAIN stores[1].chunk_cache :
          4 * stores[1].chunk_cache[h].len <= max_cache_size

\* All five quarter-budget chunks were stored, the cache is full to the byte
\* with four of them, and the 20 MiB chunk is on disk and not cached.
C33_Witness ==
    /\ \A h \in CacheHashes : get_chunk_path(h) \in DOMAIN chunks_dir
    /\ get_chunk_path(BigChunk.hash) \in DOMAIN chunks_dir
    /\ BigChunk.hash \notin DOMAIN stores[1].chunk_cache
    /\ Cardinality(DOMAIN stores[1].chunk_cache) = 4
    /\ CachedBytes(stores[1].chunk_cache) = max_cache_size
    /\ stores[1].current_cache_size = max_cache_size

\* C34: current_cache_size is the sum of the lengths of the cached entries.
C34_CounterIsCachedBytes ==
    stores[1].current_cache_size = CachedBytes(stores[1].chunk_cache)

(***************************************************************************)
(* The existence caches, with batches whose writes fail part-way.          *)
(***************************************************************************)
\* store_chunks when a write of the batch returns an I/O error: the filter
\* has run, some of the new chunks are in place, some have a .tmp file that
\* was never renamed, and the call returns before the caches are updated.
store_chunks_failed(st, disk, chunks) ==
    LET f == FilterExisting(st, disk, SeqRange(chunks)) IN
    UNION {UNION {{[st |-> w.st,
                    disk |-> LET tmps == {with_extension_tmp(get_chunk_path(c.hash)) :
                                            c \in begun}
                             IN [path \in DOMAIN w.disk \cup tmps |->
                                   IF path \in tmps THEN Truncated ELSE w.disk[path]],
                    res |-> Err("Generic")] :
                     w \in WriteBatch(f.st, disk, written)} :
                  begun \in SUBSET (f.new \ written)} :
           written \in (SUBSET f.new) \ {f.new}}

SStoreChunksFailed(batch) ==
    /\ \E o \in store_chunks_failed(stores[1], chunks_dir, batch) :
         /\ stores' = [stores EXCEPT ![1] = o.st]
         /\ chunks_dir' = o.disk
         /\ StoreReturn("store_chunks", HashesOf(batch), o.res, FALSE)
    /\ UNCHANGED <<worktree, files, commits, refs, lock_holder, pc, loc, now,
                   debug_assertions, is_repo>>

NextExists ==
    \/ NextGC
    \/ \E b \in UNION {[1..n -> GCChunks] : n \in 1..MaxBatch} : SStoreChunksFailed(b)

SpecExists == InitStore /\ [][NextExists]_vars

\* C35: chunk_exists(h) is true exactly when the chunk file of h is on disk,
\* and no digest is both known to exist and known to be missing.
C35_ExistsIffOnDisk ==
    /\ \A h \in GCHashes :
          chunk_exists(stores[1], chunks_dir, h).exists
              <=> get_chunk_path(h) \in DOMAIN chunks_dir
    /\ stores[1].existence_cache \cap stores[1].negative_cache = {}

(***************************************************************************)
(* Two processes storing chunks without the repository lock.  Each has its *)
(* own ChunkStore; the steps of store_chunk are the system calls it makes. *)
(* A process that has a file open keeps writing to that file wherever a    *)
(* rename by the other process has moved it.                               *)
(***************************************************************************)
\* Where the files that other processes hold open are after p renamed from to to.
MoveHandles(p, from, to) ==
    [q \in Procs |->
        IF q = p \/ loc[q].op # "store_chunk" \/ ~loc[q].linked THEN loc[q]
        ELSE IF loc[q].file = from THEN [loc[q] EXCEPT !.file = to]
        ELSE IF loc[q].file = to THEN [loc[q] EXCEPT !.linked = FALSE]
        ELSE loc[q]]

\* store_chunk up to the existence check.
RaceBegin(p, chunk) ==
    /\ pc[p] = "idle"
    /\ LET ce == chunk_exists(NewStore, chunks_dir, chunk.hash) IN
       IF ce.exists
       THEN /\ ret' = [ret EXCEPT ![p] = [op |-> "store_chunk", arg |-> <<chunk.hash>>,
                                          res |-> Ok(chunk.hash), cached |-> FALSE]]
            /\ UNCHANGED <<pc, loc, stores>>
       ELSE /\ pc' = [pc EXCEPT ![p] = "sc_open"]
            /\ loc' = [loc EXCEPT ![p] =
                   [op |-> "store_chunk", chunk |-> chunk, linked |-> FALSE,
                    file |-> with_extension_tmp(get_chunk_path(chunk.hash))]]
            /\ stores' = [stores EXCEPT ![p] = ce.st]
            /\ ret' = [ret EXCEPT ![p] = Err("running")]
    /\ UNCHANGED <<worktree, files, commits, refs, chunks_dir, lock_holder, now,
                   debug_assertions, is_repo>>

\* OpenOptions write, create, truncate on the .tmp path.
RaceOpen(p) ==
    /\ pc[p] = "sc_open"
    /\ chunks_dir' = MapPut(chunks_dir, loc[p].file, Truncated)
    /\ loc' = [loc EXCEPT ![p].linked = TRUE]
    /\ pc' = [pc EXCEPT ![p] = "sc_write"]
    /\ UNCHANGED <<worktree, files, commits, refs, lock_holder, stores, ret, now,
                   debug_assertions, is_repo>>

\* write_all, sync_all and the close of the file.
RaceWrite(p) ==
    /\ pc[p] = "sc_write"
    /\ chunks_dir' = IF loc[p].linked
                     THEN MapPut(chunks_dir, loc[p].file,
                                 compress_chunk_data(loc[p].chunk.data))
                     ELSE chunks_dir
    /\ pc' = [pc EXCEPT ![p] = "sc_rename"]
    /\ UNCHANGED <<worktree, files, commits, refs, lock_holder, loc, stores, ret, now,
                   debug_assertions, is_repo>>

\* fs::rename of the .tmp path, the cache updates and the return; the
\* process ends with the call.
RaceRename(p) ==
    /\ pc[p] = "sc_rename"
    /\ LET chunk == loc[p].chunk
           path == get_chunk_path(chunk.hash)
           tmp == with_extension_tmp(path)
       IN IF tmp \in DOMAIN chunks_dir
          THEN /\ chunks_dir' = Rename(chunks_dir, tmp, path)
               /\ loc' = [MoveHandles(p, tmp, path) EXCEPT ![p] = NoLoc]
               /\ ret' = [ret EXCEPT ![p] = [op |-> "store_chunk", arg |-> <<chunk.hash>>,
                                             res |-> Ok(chunk.hash), cached |-> FALSE]]
          ELSE /\ chunks_dir' = chunks_dir
               /\ loc' = [loc EXCEPT ![p] = NoLoc]
               /\ ret' = [ret EXCEPT ![p] = [op |-> "store_chunk", arg |-> <<chunk.hash>>,
                                             res |-> Err("Generic"), cached |-> FALSE]]
    /\ pc' = [pc EXCEPT ![p] = "idle"]
    /\ stores' = [stores EXCEPT ![p] = NewStore]
    /\ UNCHANGED <<worktree, files, commits, refs, lock_holder, now,
                   debug_assertions, is_repo>>

NextRace ==
    \/ \E p \in Procs, c \in GCChunks : RaceBegin(p, c)
    \/ \E p \in Procs : RaceOpen(p)
    \/ \E p \in Procs : RaceWrite(p)
    \/ \E p \in Procs : RaceRename(p)

SpecRace == InitStore /\ [][NextRace]_vars

\* C36: when two processes store the same chunk concurrently both stores
\* return success, and the chunk's final path holds either no file or one
\* complete record of the chunk.
C36_ConcurrentStoreSafe ==
    /\ \A p \in Procs :
          (pc[p] = "idle" /\ ret[p] # NoRet) => ret[p].res.ok
    /\ \A c \in GCChunks :
          get_chunk_path(c.hash) \in DOMAIN chunks_dir
              => chunks_dir[get_chunk_path(c.hash)] = compress_chunk_data(c.data)

(***************************************************************************)
(* The delta codec on byte sequences.  Positions are counted from 0 as in  *)
(* the code; a byte sequence s has its byte i at s[i + 1].                 *)
(***************************************************************************)
\* The byte at position i, 0 past the end.
ByteAt(s, i) == IF i < Len(s) THEN s[i + 1] ELSE 0

MaxOf(a, b) == IF a > b THEN a ELSE b

\* The count of the run of equal bytes that starts at i.
RECURSIVE SameRun(_, _, _, _)
SameRun(base_data, new_data, i, count) ==
    IF /\ i + count < MaxOf(Len(base_data), Len(new_data))
       /\ count < 65535
       /\ ByteAt(base_data, i + count) = ByteAt(new_data, i + count)
    THEN SameRun(base_data, new_data, i, count + 1)
    ELSE count

\* The position after the run of different bytes that starts at start_i.
RECURSIVE DiffRun(_, _, _, _)
DiffRun(base_data, new_data, start_i, i) ==
    IF /\ i < MaxOf(Len(base_data), Len(new_data))
       /\ i - start_i < 255
       /\ ByteAt(base_data, i) # ByteAt(new_data, i)
    THEN DiffRun(base_data, new_data, start_i, i + 1)
    ELSE i

\* The commands for the bytes from position i on.
RECURSIVE DeltaCommands(_, _, _)
DeltaCommands(base_data, new_data, i) ==
    IF i >= MaxOf(Len(base_data), Len(new_data)) THEN <<>>
    ELSE IF ByteAt(base_data, i) = ByteAt(new_data, i)
    THEN LET count == SameRun(base_data, new_data, i, 0)
         IN <<0, count % 256, count \div 256>>
            \o DeltaCommands(base_data, new_data, i + count)
    ELSE LET end == DiffRun(base_data, new_data, i, i)
         IN <<1, end - i>>
            \o [j \in 1..(end - i) |-> ByteAt(new_data, i + j - 1)]
            \o DeltaCommands(base_data, new_data, end)

\* u32::to_le_bytes
U32LeBytes(n) == <<n % 256, (n \div 256) % 256, (n \div 65536) % 256,
                  (n \div 16777216) % 256>>

create_delta(base_data, new_data) ==
    IF Len(base_data) = 0 \/ Len(new_data) = 0
    THEN new_data
    ELSE U32LeBytes(Len(new_data)) \o DeltaCommands(base_data, new_data, 0)

\* A Vec<u8> that ends in a run of zero bytes: head, then zeros times 0.
Bytes(head, zeros) == [head |-> head, zeros |-> zeros]

\* The loop of a "same" command: count bytes of base from base_pos on (0
\* past its end), as long as the result is short of original_size.
RECURSIVE CopyBase(_, _, _, _, _)
CopyBase(base_data, base_pos, count, result, original_size) ==
    IF count = 0 \/ Len(result) >= original_size THEN result
    ELSE CopyBase(base_data, base_pos + 1, count - 1,
                  Append(result, ByteAt(base_data, base_pos)), original_size)

\* The loop of a "different" command: count bytes of the delta (0 past its
\* end); yields the result and the delta position.
RECURSIVE CopyDelta(_, _, _, _, _)
CopyDelta(delta, delta_pos, count, result, original_size) ==
    IF count = 0 \/ Len(result) >= original_size
    THEN [result |-> result, delta_pos |-> delta_pos]
    ELSE IF delta_pos < Len(delta)
    THEN CopyDelta(delta, delta_pos + 1, count - 1,
                   Append(result, delta[delta_pos + 1]), original_size)
    ELSE CopyDelta(delta, delta_pos, count - 1, Append(result, 0), original_size)

RECURSIVE ApplyCommands(_, _, _, _, _, _)
ApplyCommands(base_data, delta, delta_pos, base_pos, result, original_size) ==
    IF ~(delta_pos < Len(delta) /\ Len(result) < original_size) THEN result
    ELSE LET command == delta[delta_pos + 1] IN
         IF command = 0
         THEN IF delta_pos + 3 > Len(delta) THEN result
              ELSE LET count == delta[delta_pos + 2] + 256 * delta[delta_pos + 3]
                   IN ApplyCommands(base_data, delta, delta_pos + 3, base_pos + count,
                                    CopyBase(base_data, base_pos, count, result,
                                             original_size),
                                    original_size)
         ELSE IF command = 1
         THEN IF delta_pos + 1 >= Len(delta) THEN result
              ELSE LET count == delta[delta_pos + 2]
                       c == CopyDelta(delta, delta_pos + 2, count, result, original_size)
                   IN ApplyCommands(base_data, delta, c.delta_pos, base_pos + count,
                                    c.result, original_size)
         ELSE ApplyCommands(base_data, delta, delta_pos + 1, base_pos, result,
                            original_size)

apply_delta(base_data, delta) ==
    IF Len(delta) < 4
    THEN Ok(Bytes(delta, 0))
    ELSE LET original_size == delta[1] + 256 * delta[2] + 65536 * delta[3]
                              + 16777216 * delta[4]
             result == ApplyCommands(base_data, delta, 4, 0, <<>>, original_size)
         IN Ok(Bytes(result, original_size - Len(result)))

\* The byte values and the lengths of the sequences the codec is run on.
DeltaBytes == {0, 1, 2}
MaxDeltaLen == 4
ByteSeqs == UNION {[1..n -> DeltaBytes] : n \in 0..MaxDeltaLen}

InitDelta ==
    /\ worktree = [p \in Paths |-> NoFile]
    /\ files = EmptyMap
    /\ commits = {}
    /\ refs = [n \in {"HEAD"} |-> None]
    /\ chunks_dir = EmptyMap
    /\ lock_holder = 0
    /\ pc = [p \in Procs |-> "idle"]
    /\ \E base_data \in ByteSeqs, new_data \in ByteSeqs :
          loc = [p \in Procs |->
                   IF p = 1 THEN [op |-> "delta", base_data |-> base_data,
                                  new_data |-> new_data]
                   ELSE NoLoc]
    /\ stores = [p \in Procs |-> NewStore]
    /\ ret = [p \in Procs |-> NoRet]
    /\ now = 1
    /\ debug_assertions = FALSE
    /\ is_repo = TRUE

\* create_delta, then apply_delta on its output.
DeltaRoundTrip ==
    /\ ret[1] = NoRet
    /\ LET delta == create_delta(loc[1].base_data, loc[1].new_data) IN
       ret' = [ret EXCEPT ![1] =
                 [op |-> "apply_delta", delta |-> delta,
                  res |-> apply_delta(loc[1].base_data, delta)]]
    /\ UNCHANGED <<worktree, files, commits, refs, chunks_dir, lock_holder, pc, loc,
                   stores, now, debug_assertions, is_repo>>

NextDelta == DeltaRoundTrip

SpecDelta == InitDelta /\ [][NextDelta]_vars

\* The Vec<u8> b holds exactly the bytes of s.
SameBytes(b, s) ==
    /\ Len(s) = Len(b.head) + b.zeros
    /\ \A i \in 1..Len(s) : s[i] = IF i <= Len(b.head) THEN b.head[i] ELSE 0

\* C37: apply_delta(base, create_delta(base, new)) returns exactly new, for
\* all byte sequences base and new, empty ones included.
C37_DeltaRoundTrip ==
    ret[1].op = "apply_delta" =>
        /\ ret[1].res.ok
        /\ SameBytes(ret[1].res.val, loc[1].new_data)

\* The round trip when base is not empty or new has fewer than four bytes.
DeltaRoundTripWithHeader ==
    (/\ ret[1].op = "apply_delta"
     /\ loc[1].base_data # <<>> \/ Len(loc[1].new_data) < 4) =>
        /\ ret[1].res.ok
        /\ SameBytes(ret[1].res.val, loc[1].new_data)

(***************************************************************************)
(* Stores of similar chunks, with and without the delta entry point.       *)
(***************************************************************************)
SStoreChunkWithDelta(chunk) ==
    /\ \E o \in store_chunk_with_delta(stores[1], chunks_dir, chunk) :
         /\ stores' = [stores EXCEPT ![1] = o.st]
         /\ chunks_dir' = o.disk
         /\ ret' = [ret EXCEPT ![1] =
                [op |-> "store_chunk_with_delta", hash |-> chunk.hash, res |-> o.res]]
    /\ UNCHANGED <<worktree, files, commits, refs, lock_holder, pc, loc, now,
                   debug_assertions, is_repo>>

\* Three CHUNK_SIZE pieces of one content, similar to each other, and a
\* small chunk of another content.
SimilarChunks == {FileChunk(Slice("x", k * CHUNK_SIZE, CHUNK_SIZE)) : k \in 0..2}
DeltaChunks == SimilarChunks \cup {FileChunk(Slice("s", 0, ContentLen("s")))}

NextSimilar ==
    \/ \E c \in DeltaChunks : SStoreChunk(c)
    \/ \E b \in UNION {[1..n -> DeltaChunks] : n \in 1..MaxBatch} : SStoreChunks(b)
    \/ \E c \in DeltaChunks : SStoreChunkWithDelta(c)

SpecSimilar == InitStore /\ [][NextSimilar]_vars

\* C38: from an empty chunk store, after any store_chunk, store_chunks and
\* store_chunk_with_delta calls the delta-hint map is empty and no chunk
\* file carries the delta type tag 3.
C38_NoDeltaEverWritten ==
    /\ stores[1].delta_cache = EmptyMap
    /\ \A path \in DOMAIN chunks_dir : chunks_dir[path].tag # 3

\* store_chunk_with_delta has just written a chunk while a similar chunk,
\* a usable delta base, was on disk.
C38_Witness ==
    /\ ret[1].op = "store_chunk_with_delta"
    /\ ret[1].res.ok
    /\ get_chunk_path(ret[1].hash) \in DOMAIN chunks_dir
    /\ \E c \in SimilarChunks :
          /\ c.hash # ret[1].hash
          /\ get_chunk_path(c.hash) \in DOMAIN chunks_dir
          /\ Similar(c.data, DataOf(ret[1].hash))

\* C39: every step of a checkout leaves staging, the set of commits, every
\* ref other than HEAD and every working-tree file that the commit's
\* manifest map does not name as they were; after a successful checkout
\* staging may differ from the manifests of the commit HEAD names.
C39_Step ==
    (\/ pc[1] \in {"checkout_restore", "checkout_ref"}
     \/ pc'[1] = "checkout_restore") =>
        LET commit == IF pc[1] = "idle" THEN loc'[1].commit ELSE loc[1].commit
            named == {commit.files[k].path : k \in DOMAIN commit.files}
        IN /\ files' = files
           /\ commits' = commits
           /\ DOMAIN refs' \ {"HEAD"} = DOMAIN refs \ {"HEAD"}
           /\ \A n \in DOMAIN refs \ {"HEAD"} : refs'[n] = refs[n]
           /\ \A path \in Paths \ named : worktree'[path] = worktree[path]
           /\ (pc[1] # "checkout_ref" => refs' = refs)
           /\ (pc[1] # "checkout_restore" => worktree' = worktree)

C39_CheckoutFrame == [][C39_Step]_vars

\* A checkout has succeeded: HEAD names its commit, a second ref exists, a
\* working-tree file that the commit does not name is still there, and
\* staging is not the commit's manifest map.
C39_Witness ==
    /\ pc[1] = "idle"
    /\ ret[1].op = "checkout"
    /\ ret[1].res.ok
    /\ "dev" \in DOMAIN refs
    /\ \E c \in commits :
          /\ c.hash = refs["HEAD"]
          /\ c.hash = ret[1].res.val
          /\ files # c.files
          /\ \E path \in Paths :
                /\ worktree[path].exists
                /\ path \notin {c.files[k].path : k \in DOMAIN c.files}

\* C40: commit with all=true and non-empty staging succeeds in every
\* working-tree state, also when the file of a staged path was deleted: its
\* first step re-stages the paths that differ and goes on, and the step that
\* ends it returns the new commit's digest.
C40_Step ==
    /\ (/\ ret'[1].op = "commit"
        /\ files # EmptyMap
        /\ \E m \in Messages, allow_empty \in BOOLEAN : CommitBegin(1, m, TRUE, allow_empty))
          => pc'[1] # "idle"
    /\ (/\ pc[1] # "idle"
        /\ loc[1].op = "commit"
        /\ loc[1].all
        /\ loc[1].files_at_call # EmptyMap
        /\ pc'[1] = "idle")
          => ret'[1].res.ok

C40_CommitAllSucceeds == [][C40_Step]_vars

====
